---- MODULE Spec2Model ----
(***************************************************************************)
(* Budget-Sanity: the extraction core of src/src/extract.js.               *)
(*                                                                         *)
(* JavaScript values are tagged records.  A string is a sequence of        *)
(* one-character strings, so that trim, toLowerCase, Number(...) and       *)
(* String(...) are computed character by character.  A finite number is an *)
(* exact decimal m / 10^e, kept normalised (e = 0 or m not divisible by    *)
(* 10), so that equal numbers are equal records.                           *)
(***************************************************************************)
EXTENDS Integers, Sequences, FiniteSets

----------------------------------------------------------------------------
(* Bounds of the model *)

\* rows of the modelled worksheet grid (rows 1-2 are the headers)
MaxRow == 5

\* longest string enumerated as an input of the numeric coercion
MaxStrLen == 3

\* largest magnitude of a numeric cell value enumerated for the coercion
MaxNum == 12

----------------------------------------------------------------------------
(* JavaScript values *)

Null == [t |-> "null"]
Undefined == [t |-> "undefined"]
Str(s) == [t |-> "string", s |-> s]
Bool(b) == [t |-> "boolean", b |-> b]
NaN == [t |-> "number", k |-> "nan"]
PosInf == [t |-> "number", k |-> "inf"]
NegInf == [t |-> "number", k |-> "-inf"]

RECURSIVE Normalise(_, _)
Normalise(m, e) ==
  IF e > 0 /\ m % 10 = 0
    THEN Normalise(m \div 10, e - 1)
    ELSE [t |-> "number", k |-> "fin", m |-> m, e |-> e]

\* the finite number m / 10^e
Dec(m, e) == Normalise(m, e)
\* the integer n
Num(n) == Dec(n, 0)

IsNumber(v) == v.t = "number"
IsFiniteNumber(v) == v.t = "number" /\ v.k = "fin"

RECURSIVE Pow10(_)
Pow10(n) == IF n = 0 THEN 1 ELSE 10 * Pow10(n - 1)

Max2(a, b) == IF a >= b THEN a ELSE b

\* a + b on JavaScript numbers
NumAdd(a, b) ==
  IF a.k = "nan" \/ b.k = "nan" THEN NaN
  ELSE IF a.k = "fin" /\ b.k = "fin"
    THEN LET E == Max2(a.e, b.e)
         IN  Dec(a.m * Pow10(E - a.e) + b.m * Pow10(E - b.e), E)
  ELSE IF a.k = "fin" THEN b
  ELSE IF b.k = "fin" THEN a
  ELSE IF a.k = b.k THEN a ELSE NaN

\* a plausible slip: the test is a >= 0
NumPositive_OrZero(a) == (a.k = "fin" /\ a.m >= 0) \/ a.k = "inf"

\* a > 0 on JavaScript numbers
NumPositive(a) == (a.k = "fin" /\ a.m > 0) \/ a.k = "inf"

----------------------------------------------------------------------------
(* Characters and strings *)

Digits == <<"0", "1", "2", "3", "4", "5", "6", "7", "8", "9">>

IsDigit(c) == \E i \in 1..Len(Digits) : Digits[i] = c

DigitVal(c) == (CHOOSE i \in 1..Len(Digits) : Digits[i] = c) - 1

IsWhiteSpace(c) == c \in {" ", "\t", "\n"}

Upper == <<"A", "B", "C", "D", "E", "F", "G", "H", "I", "J", "K", "L", "M",
           "N", "O", "P", "Q", "R", "S", "T", "U", "V", "W", "X", "Y", "Z">>
Lower == <<"a", "b", "c", "d", "e", "f", "g", "h", "i", "j", "k", "l", "m",
           "n", "o", "p", "q", "r", "s", "t", "u", "v", "w", "x", "y", "z">>

LowerChar(c) ==
  IF \E i \in 1..Len(Upper) : Upper[i] = c
    THEN Lower[CHOOSE i \in 1..Len(Upper) : Upper[i] = c]
    ELSE c

\* String.prototype.toLowerCase
toLowerCase(s) == [i \in 1..Len(s) |-> LowerChar(s[i])]

RECURSIVE TrimStart(_)
TrimStart(s) ==
  IF s # <<>> /\ IsWhiteSpace(Head(s)) THEN TrimStart(Tail(s)) ELSE s

RECURSIVE TrimEnd(_)
TrimEnd(s) ==
  IF s # <<>> /\ IsWhiteSpace(s[Len(s)])
    THEN TrimEnd(SubSeq(s, 1, Len(s) - 1))
    ELSE s

\* String.prototype.trim
trim(s) == TrimEnd(TrimStart(s))

AllDigits(s) == \A i \in 1..Len(s) : IsDigit(s[i])

RECURSIVE DigitsToNat(_)
DigitsToNat(s) ==
  IF s = <<>> THEN 0
  ELSE DigitsToNat(SubSeq(s, 1, Len(s) - 1)) * 10 + DigitVal(s[Len(s)])

RECURSIVE NatToDigits(_)
NatToDigits(n) ==
  IF n < 10 THEN <<Digits[n + 1]>>
  ELSE NatToDigits(n \div 10) \o <<Digits[(n % 10) + 1]>>

RECURSIVE Zeros(_)
Zeros(n) == IF n <= 0 THEN <<>> ELSE <<"0">> \o Zeros(n - 1)

Chars_Infinity == <<"I", "n", "f", "i", "n", "i", "t", "y">>
Chars_NaN == <<"N", "a", "N">>

----------------------------------------------------------------------------
(* Number(string): the StringToNumber grammar for a decimal literal without
   exponent: optional white space, optional sign, then Infinity, or digits
   with an optional fraction, or a fraction alone.  The empty and the
   all-white-space string are 0; anything else is NaN. *)

PointAt(s) == CHOOSE i \in 1..Len(s) : s[i] = "."

UnsignedToNumber(s, sign) ==
  IF s = Chars_Infinity THEN (IF sign < 0 THEN NegInf ELSE PosInf)
  ELSE IF s = <<>> THEN NaN
  ELSE IF AllDigits(s) THEN Dec(sign * DigitsToNat(s), 0)
  ELSE IF \E i \in 1..Len(s) : s[i] = "."
    THEN LET p == PointAt(s)
             ip == SubSeq(s, 1, p - 1)
             fp == SubSeq(s, p + 1, Len(s))
         IN  IF AllDigits(ip) /\ AllDigits(fp) /\ Len(ip) + Len(fp) > 0
               THEN Dec(sign * DigitsToNat(ip \o fp), Len(fp))
               ELSE NaN
  ELSE NaN

StringToNumber(s) ==
  LET u == trim(s)
  IN  IF u = <<>> THEN Num(0)
      ELSE IF Head(u) = "-" THEN UnsignedToNumber(Tail(u), -1)
      ELSE IF Head(u) = "+" THEN UnsignedToNumber(Tail(u), 1)
      ELSE UnsignedToNumber(u, 1)

\* Number(v)
ToNumber(v) ==
  CASE v.t = "number" -> v
    [] v.t = "string" -> StringToNumber(v.s)
    [] v.t = "boolean" -> (IF v.b THEN Num(1) ELSE Num(0))
    [] v.t = "null" -> Num(0)
    [] v.t = "undefined" -> NaN

\* Number.prototype.toString for the magnitudes of the model
NumberToString(n) ==
  CASE n.k = "nan" -> Chars_NaN
    [] n.k = "inf" -> Chars_Infinity
    [] n.k = "-inf" -> <<"-">> \o Chars_Infinity
    [] n.k = "fin" ->
         LET a == IF n.m < 0 THEN -n.m ELSE n.m
             d0 == NatToDigits(a)
             d == Zeros(n.e + 1 - Len(d0)) \o d0
             ip == SubSeq(d, 1, Len(d) - n.e)
             fp == SubSeq(d, Len(d) - n.e + 1, Len(d))
         IN  (IF n.m < 0 THEN <<"-">> ELSE <<>>) \o ip
               \o (IF n.e > 0 THEN <<".">> \o fp ELSE <<>>)

\* String(v), as characters
StringOf(v) ==
  CASE v.t = "string" -> v.s
    [] v.t = "number" -> NumberToString(v)
    [] v.t = "boolean" -> (IF v.b THEN <<"t", "r", "u", "e">>
                                  ELSE <<"f", "a", "l", "s", "e">>)
    [] v.t = "null" -> <<"n", "u", "l", "l">>
    [] v.t = "undefined" -> <<"u", "n", "d", "e", "f", "i", "n", "e", "d">>

\* ToBoolean(v): false for null, undefined, "", 0, NaN and false
Truthy(v) ==
  CASE v.t = "string" -> v.s # <<>>
    [] v.t = "number" -> ~(v.k = "nan" \/ (v.k = "fin" /\ v.m = 0))
    [] v.t = "boolean" -> v.b
    [] v.t = "null" -> FALSE
    [] v.t = "undefined" -> FALSE
    [] v.t = "object" -> TRUE

\* a || b
Or(a, b) == IF Truthy(a) THEN a ELSE b

----------------------------------------------------------------------------
(* extract.js: safeFloat *)

\* a plausible slip: Number(val) returned without the finiteness test
safeFloat_NoFiniteTest(val) ==
  IF val.t \in {"null", "undefined"} THEN Num(0) ELSE ToNumber(val)

safeFloat(val) ==
  IF val.t \in {"null", "undefined"} THEN Num(0)
  ELSE LET n == ToNumber(val)
       IN  IF IsFiniteNumber(n) THEN n ELSE Num(0)

----------------------------------------------------------------------------
(* The column contract of extract.js (1-indexed) *)

FirstDataRow == 3
ColCategory == 1
ColEventType == 2
ColSourceFund == 3
ColExpenseType == 4
ColVendor == 5
ColDescription == 6
ColItboLine == 7
ColSow == 8
ColItbo == 9
ColPo == 10
ColBudgetFY26 == 11
ColCommittedFY26 == 12
ColBudgetMonthly == 13
ColBudgetQuarterly == 25
ColBudgetFY == 29
ColForecastMonthly == 30
ColForecastQuarterly == 42
ColForecastFY == 46
ColActualMonthly == 47
ColActualQuarterly == 59
ColActualFY == 63
ColBvfMonthly == 64
ColBvfFY == 80
ColBvaMonthly == 81
ColBvaFY == 97
TotalColumns == 97
NMonths == 12
NQuarters == 4

MONTHS == <<"Jan", "Feb", "Mar", "Apr", "May", "Jun",
            "Jul", "Aug", "Sep", "Oct", "Nov", "Dec">>
QUARTERS == <<"Q1", "Q2", "Q3", "Q4">>

TargetSheet == "2026 Budget"

----------------------------------------------------------------------------
(* Worksheets.  A cell is absent, or present with a value v and a formula f
   (Undefined when the cell has none).  ref models ws['!ref']: absent, or a
   range whose end row e.r is 0-indexed. *)

AbsentCell == [present |-> FALSE]
ValueCell(v) == [present |-> TRUE, v |-> v, f |-> Undefined]
FormulaCell(v, f) == [present |-> TRUE, v |-> v, f |-> Str(f)]

CellAt(ws, row, col) ==
  IF row \in DOMAIN ws.cells /\ col \in DOMAIN ws.cells[row]
    THEN ws.cells[row][col]
    ELSE AbsentCell

cellVal(ws, row, col) ==
  LET cell == CellAt(ws, row, col)
  IN  IF cell.present THEN cell.v ELSE Null

\* a plausible slip: the 1-indexed address is used as a 0-indexed one
cellFormula_NoConvert(ws, row, col) ==
  LET cell == CellAt(ws, row + 1, col + 1)
  IN  IF cell.present /\ Truthy(cell.f) THEN cell.f.s ELSE <<>>

cellFormula(ws, row, col) ==
  LET cell == CellAt(ws, row, col)
  IN  IF cell.present /\ Truthy(cell.f) THEN cell.f.s ELSE <<>>

maxRow(ws) == (IF ws.ref.present THEN ws.ref.e.r ELSE 0) + 1

----------------------------------------------------------------------------
(* extract.js: extractBudget *)

Chars_total == <<"t", "o", "t", "a", "l">>
Chars_Unspecified == <<"U", "n", "s", "p", "e", "c", "i", "f", "i", "e", "d">>
Chars_Other == <<"O", "t", "h", "e", "r">>

\* the label compared with 'total' without trimming
TotalLabel_NoTrim(ws, r) ==
  toLowerCase(StringOf(Or(cellVal(ws, r, ColCategory), Str(<<>>))))

\* String(cellVal(ws, r, 1) || '').trim().toLowerCase()
TotalLabel(ws, r) ==
  toLowerCase(trim(StringOf(Or(cellVal(ws, r, ColCategory), Str(<<>>)))))

\* the detection loop: the first r in r..wsMaxRow labelled 'total', or null
RECURSIVE ScanTotals(_, _, _)
ScanTotals(ws, r, wsMaxRow) ==
  IF r > wsMaxRow THEN [found |-> FALSE]
  ELSE IF TotalLabel(ws, r) = Chars_total THEN [found |-> TRUE, row |-> r]
  ELSE ScanTotals(ws, r + 1, wsMaxRow)

\* totalsRow after "if (totalsRow === null) totalsRow = wsMaxRow"
DetectTotalsRow(ws) ==
  LET wsMaxRow == maxRow(ws)
      scan == ScanTotals(ws, FirstDataRow, wsMaxRow)
  IN  IF scan.found THEN scan.row ELSE wsMaxRow

\* String(cellVal(ws, row, col) || '')
StrField(ws, row, col) == StringOf(Or(cellVal(ws, row, col), Str(<<>>)))

\* a plausible slip: the series starts one column to the right
FloatSeries_OffByOne(ws, row, col, n) ==
  [i \in 1..n |-> safeFloat(cellVal(ws, row, col + i))]

\* a plausible slip: the series is one element short
FloatSeries_Short(ws, row, col, n) ==
  [i \in 1..(n - 1) |-> safeFloat(cellVal(ws, row, col + (i - 1)))]

\* a plausible slip: only the cells that exist contribute an element
FloatSeries_PresentOnly(ws, row, col, n) ==
  LET present == SelectSeq([i \in 1..n |-> CellAt(ws, row, col + (i - 1))],
                           LAMBDA cell : cell.present)
  IN  [i \in 1..Len(present) |-> safeFloat(present[i].v)]

\* Array.from({ length: n }, (_, i) => safeFloat(cellVal(ws, row, col + i)))
FloatSeries(ws, row, col, n) ==
  [i \in 1..n |-> safeFloat(cellVal(ws, row, col + (i - 1)))]

\* a plausible slip: no row is skipped
RowSkipped_Never(ws, rowIdx) == FALSE

\* "if (!eventType) continue": the row is skipped
RowSkipped(ws, rowIdx) == ~Truthy(cellVal(ws, rowIdx, ColEventType))

\* the item built from a row
LineItem(ws, rowIdx) ==
  [row |-> rowIdx,
   category |-> StrField(ws, rowIdx, ColCategory),
   event_type |-> StrField(ws, rowIdx, ColEventType),
   source_fund |-> StrField(ws, rowIdx, ColSourceFund),
   expense_type |-> StrField(ws, rowIdx, ColExpenseType),
   vendor |-> StrField(ws, rowIdx, ColVendor),
   description |-> StrField(ws, rowIdx, ColDescription),
   itbo_line |-> StrField(ws, rowIdx, ColItboLine),
   sow |-> StrField(ws, rowIdx, ColSow),
   itbo |-> StrField(ws, rowIdx, ColItbo),
   po |-> StrField(ws, rowIdx, ColPo),
   budget_fy26 |-> safeFloat(cellVal(ws, rowIdx, ColBudgetFY26)),
   committed_fy26 |-> safeFloat(cellVal(ws, rowIdx, ColCommittedFY26)),
   budget_monthly |-> FloatSeries(ws, rowIdx, ColBudgetMonthly, NMonths),
   budget_quarterly |-> FloatSeries(ws, rowIdx, ColBudgetQuarterly, NQuarters),
   budget_fy |-> safeFloat(cellVal(ws, rowIdx, ColBudgetFY)),
   forecast_monthly |-> FloatSeries(ws, rowIdx, ColForecastMonthly, NMonths),
   forecast_quarterly |-> FloatSeries(ws, rowIdx, ColForecastQuarterly, NQuarters),
   forecast_fy |-> safeFloat(cellVal(ws, rowIdx, ColForecastFY)),
   actual_monthly |-> FloatSeries(ws, rowIdx, ColActualMonthly, NMonths),
   actual_quarterly |-> FloatSeries(ws, rowIdx, ColActualQuarterly, NQuarters),
   actual_fy |-> safeFloat(cellVal(ws, rowIdx, ColActualFY)),
   bvf_monthly |-> FloatSeries(ws, rowIdx, ColBvfMonthly, NMonths),
   bvf_fy |-> safeFloat(cellVal(ws, rowIdx, ColBvfFY)),
   bva_monthly |-> FloatSeries(ws, rowIdx, ColBvaMonthly, NMonths),
   bva_fy |-> safeFloat(cellVal(ws, rowIdx, ColBvaFY)),
   committed_formula |-> cellFormula(ws, rowIdx, ColCommittedFY26)]

\* a plausible slip: the loop runs up to and including totalsRow
RECURSIVE LineItems_Inclusive(_, _, _)
LineItems_Inclusive(ws, rowIdx, totalsRow) ==
  IF rowIdx > totalsRow THEN <<>>
  ELSE IF RowSkipped(ws, rowIdx)
    THEN LineItems_Inclusive(ws, rowIdx + 1, totalsRow)
  ELSE <<LineItem(ws, rowIdx)>> \o LineItems_Inclusive(ws, rowIdx + 1, totalsRow)

\* the line-item loop, from rowIdx up to but excluding totalsRow
RECURSIVE LineItems(_, _, _)
LineItems(ws, rowIdx, totalsRow) ==
  IF rowIdx >= totalsRow THEN <<>>
  ELSE IF RowSkipped(ws, rowIdx) THEN LineItems(ws, rowIdx + 1, totalsRow)
  ELSE <<LineItem(ws, rowIdx)>> \o LineItems(ws, rowIdx + 1, totalsRow)

RECURSIVE CommittedOfRows(_, _, _)
CommittedOfRows(ws, rowIdx, totalsRow) ==
  IF rowIdx >= totalsRow THEN Num(0)
  ELSE NumAdd(IF RowSkipped(ws, rowIdx) THEN Num(0)
              ELSE safeFloat(cellVal(ws, rowIdx, ColCommittedFY26)),
              CommittedOfRows(ws, rowIdx + 1, totalsRow))

\* a plausible slip: the committed total is summed over the line items
Totals_Summed(ws, tr) ==
  [budget_fy26 |-> safeFloat(cellVal(ws, tr, ColBudgetFY26)),
   committed_fy26 |-> CommittedOfRows(ws, FirstDataRow, tr),
   budget_monthly |-> FloatSeries(ws, tr, ColBudgetMonthly, NMonths),
   budget_quarterly |-> FloatSeries(ws, tr, ColBudgetQuarterly, NQuarters),
   budget_fy |-> safeFloat(cellVal(ws, tr, ColBudgetFY)),
   forecast_monthly |-> FloatSeries(ws, tr, ColForecastMonthly, NMonths),
   forecast_quarterly |-> FloatSeries(ws, tr, ColForecastQuarterly, NQuarters),
   forecast_fy |-> safeFloat(cellVal(ws, tr, ColForecastFY)),
   actual_monthly |-> FloatSeries(ws, tr, ColActualMonthly, NMonths),
   actual_quarterly |-> FloatSeries(ws, tr, ColActualQuarterly, NQuarters),
   actual_fy |-> safeFloat(cellVal(ws, tr, ColActualFY)),
   bvf_fy |-> safeFloat(cellVal(ws, tr, ColBvfFY)),
   bva_fy |-> safeFloat(cellVal(ws, tr, ColBvaFY))]

\* the totals record read from row tr
Totals(ws, tr) ==
  [budget_fy26 |-> safeFloat(cellVal(ws, tr, ColBudgetFY26)),
   committed_fy26 |-> safeFloat(cellVal(ws, tr, ColCommittedFY26)),
   budget_monthly |-> FloatSeries(ws, tr, ColBudgetMonthly, NMonths),
   budget_quarterly |-> FloatSeries(ws, tr, ColBudgetQuarterly, NQuarters),
   budget_fy |-> safeFloat(cellVal(ws, tr, ColBudgetFY)),
   forecast_monthly |-> FloatSeries(ws, tr, ColForecastMonthly, NMonths),
   forecast_quarterly |-> FloatSeries(ws, tr, ColForecastQuarterly, NQuarters),
   forecast_fy |-> safeFloat(cellVal(ws, tr, ColForecastFY)),
   actual_monthly |-> FloatSeries(ws, tr, ColActualMonthly, NMonths),
   actual_quarterly |-> FloatSeries(ws, tr, ColActualQuarterly, NQuarters),
   actual_fy |-> safeFloat(cellVal(ws, tr, ColActualFY)),
   bvf_fy |-> safeFloat(cellVal(ws, tr, ColBvfFY)),
   bva_fy |-> safeFloat(cellVal(ws, tr, ColBvaFY))]

(* A plain object used as a map: its own properties as a sequence of
   [k, v] in the order Object.keys, for-in and JSON.stringify list them:
   the array-index keys (canonical integers 0 .. 2^32 - 2) first, ascending,
   then the other keys in insertion order. *)
Chars_MaxIndex == <<"4", "2", "9", "4", "9", "6", "7", "2", "9", "4">>

\* a < b for two digit strings without leading zeros
RECURSIVE IndexLess(_, _)
IndexLess(a, b) ==
  IF Len(a) # Len(b) THEN Len(a) < Len(b)
  ELSE IF a = <<>> THEN FALSE
  ELSE IF a[1] # b[1] THEN DigitVal(a[1]) < DigitVal(b[1])
  ELSE IndexLess(Tail(a), Tail(b))

\* the property key is an array index
IsArrayIndex(key) ==
  /\ key # <<>>
  /\ AllDigits(key)
  /\ (Len(key) = 1 \/ key[1] # "0")
  /\ (key = Chars_MaxIndex \/ IndexLess(key, Chars_MaxIndex))

HasKey(obj, key) == \E i \in 1..Len(obj) : obj[i].k = key

\* obj[key]
ObjGet(obj, key) ==
  IF HasKey(obj, key)
    THEN obj[CHOOSE i \in 1..Len(obj) : obj[i].k = key].v
    ELSE Undefined

\* obj[key] = value
ObjSet(obj, key, value) ==
  IF HasKey(obj, key)
    THEN [i \in 1..Len(obj) |->
            IF obj[i].k = key THEN [k |-> key, v |-> value] ELSE obj[i]]
  ELSE IF IsArrayIndex(key)
    THEN LET before == Cardinality({i \in 1..Len(obj) :
                         IsArrayIndex(obj[i].k) /\ IndexLess(obj[i].k, key)})
         IN  SubSeq(obj, 1, before) \o <<[k |-> key, v |-> value]>>
               \o SubSeq(obj, before + 1, Len(obj))
  ELSE Append(obj, [k |-> key, v |-> value])

\* a plausible slip: the bucket is overwritten instead of accumulated
Accumulate_Overwrite(obj, label, amount) == ObjSet(obj, label, amount)

\* obj[label] = (obj[label] || 0) + amount
Accumulate(obj, label, amount) ==
  ObjSet(obj, label, NumAdd(Or(ObjGet(obj, label), Num(0)), amount))

\* a plausible slip: the label is used without its default
LabelOr_NoDefault(field, default) == field

\* item.<field> || '<default>'
LabelOr(field, default) == Or(Str(field), Str(default)).s

\* the aggregation loop over the first n line items
RECURSIVE Aggregate(_, _)
Aggregate(lineItems, n) ==
  IF n = 0
    THEN [by_source_fund |-> <<>>, by_expense_type |-> <<>>,
          by_category |-> <<>>, actuals_detail |-> <<>>]
    ELSE LET acc == Aggregate(lineItems, n - 1)
             item == lineItems[n]
             fund == LabelOr(item.source_fund, Chars_Unspecified)
             etype == LabelOr(item.expense_type, Chars_Unspecified)
             cat == LabelOr(item.category, Chars_Other)
         IN  [by_source_fund |->
                Accumulate(acc.by_source_fund, fund, item.committed_fy26),
              by_expense_type |->
                Accumulate(acc.by_expense_type, etype, item.committed_fy26),
              by_category |->
                Accumulate(acc.by_category, cat, item.committed_fy26),
              actuals_detail |->
                IF NumPositive(item.actual_fy)
                  THEN Append(acc.actuals_detail,
                              [category |-> item.category,
                               vendor |-> item.vendor,
                               description |-> item.description,
                               actual_fy |-> item.actual_fy])
                  ELSE acc.actuals_detail]

\* the static annotations, by id and severity or priority
AuditFindings ==
  <<[id |-> 1, severity |-> "high"], [id |-> 2, severity |-> "medium"],
    [id |-> 3, severity |-> "medium"], [id |-> 4, severity |-> "low"],
    [id |-> 5, severity |-> "info"], [id |-> 6, severity |-> "info"],
    [id |-> 7, severity |-> "info"]>>

Recommendations ==
  <<[id |-> 1, priority |-> "high"], [id |-> 2, priority |-> "high"],
    [id |-> 3, priority |-> "medium"], [id |-> 4, priority |-> "medium"],
    [id |-> 5, priority |-> "medium"], [id |-> 6, priority |-> "low"],
    [id |-> 7, priority |-> "low"]>>

\* a plausible slip: a sheet without '!ref' is rejected as well
SheetMissing_OrNoRef(wb) ==
  \/ TargetSheet \notin DOMAIN wb.Sheets
  \/ ~wb.Sheets[TargetSheet].ref.present

\* "if (!ws)": the target sheet is missing from workbook.Sheets
SheetMissing(wb) == TargetSheet \notin DOMAIN wb.Sheets

\* names.join(sep), as the sequence of its pieces
RECURSIVE Join(_, _)
Join(names, sep) ==
  IF Len(names) = 0 THEN <<>>
  ELSE IF Len(names) = 1 THEN <<names[1]>>
  ELSE <<names[1], sep>> \o Join(Tail(names), sep)

\* a plausible slip: the available sheets are not listed
ErrorMessage_NoNames(wb) ==
  <<"Sheet \"", TargetSheet, "\" not found. Available sheets: ">>

\* the message of the thrown Error, as the sequence of its pieces
ErrorMessage(wb) ==
  <<"Sheet \"", TargetSheet, "\" not found. Available sheets: ">>
    \o Join(wb.SheetNames, ", ")

\* "months: MONTHS, quarters: QUARTERS": the result holds the module-level
\* array itself, not a copy; ModuleRef names the array it refers to
ModuleRef(name) == [ref |-> name]

\* the module-level arrays as they are when the module is loaded
ModuleArraysAtLoad == [MONTHS |-> MONTHS, QUARTERS |-> QUARTERS]

\* the fields of a result that are module-level arrays
ModuleArrayFields == {"months", "quarters"}

\* the array fields of a result that are created by the call that returns it
FreshArrayFields == {"line_items", "audit_findings", "recommendations"}

\* a plausible slip: the scan writes the trimmed, lowercased label back into
\* the column-1 cell of every data row
WorkbookAfterExtract_Normalised(wb) ==
  LET cells == wb.Sheets[TargetSheet].cells
      norm(r, c) ==
        IF r >= FirstDataRow /\ c = ColCategory /\ cells[r][c].v.t = "string"
          THEN [cells[r][c] EXCEPT !.v = Str(toLowerCase(trim(@.s)))]
          ELSE cells[r][c]
  IN  [wb EXCEPT !.Sheets[TargetSheet].cells =
         [r \in DOMAIN cells |-> [c \in DOMAIN cells[r] |-> norm(r, c)]]]

\* the workbook once extractBudget has returned: the function reaches the
\* worksheet through cellVal, cellFormula and maxRow only, and none of them
\* assigns to it
WorkbookAfterExtract(wb) == wb

\* the object returned by extractBudget(workbook) on the date today
ExtractionResult(wb, today) ==
  LET ws == wb.Sheets[TargetSheet]
      totalsRow == DetectTotalsRow(ws)
      lineItems == LineItems(ws, FirstDataRow, totalsRow)
      agg == Aggregate(lineItems, Len(lineItems))
  IN  [metadata |-> [title |-> "CDO 2026 Budget",
                     file |-> "Uploaded via dashboard",
                     sheet |-> TargetSheet,
                     table_name |-> "CDOBudget",
                     total_columns |-> TotalColumns,
                     total_line_items |-> Len(lineItems),
                     extracted_at |-> today],
       months |-> ModuleRef("MONTHS"),
       quarters |-> ModuleRef("QUARTERS"),
       line_items |-> lineItems,
       totals |-> Totals(ws, totalsRow),
       by_source_fund |-> agg.by_source_fund,
       by_expense_type |-> agg.by_expense_type,
       by_category |-> agg.by_category,
       actuals_detail |-> agg.actuals_detail,
       audit_findings |-> AuditFindings,
       recommendations |-> Recommendations]

(* The ahead-of-time extractor, extract_budget.py, which extract.js says it
   mirrors. Its source is not part of the files at hand; it is taken to be
   the core algorithm as the specification states it (sections 4.1 to 4.3):
   the same column contract, totals row, numeric coercion and aggregation,
   with the string coercion "absent cell -> empty string, non-string cell
   value -> stringified" and the row inclusion "column 2 is non-empty after
   string coercion". *)
PyString(v) == IF v.t \in {"null", "undefined"} THEN <<>> ELSE StringOf(v)

PyStrField(ws, row, col) == PyString(cellVal(ws, row, col))

PyRowSkipped(ws, rowIdx) == PyStrField(ws, rowIdx, ColEventType) = <<>>

PyLineItem(ws, rowIdx) ==
  [LineItem(ws, rowIdx) EXCEPT
     !.category = PyStrField(ws, rowIdx, ColCategory),
     !.event_type = PyStrField(ws, rowIdx, ColEventType),
     !.source_fund = PyStrField(ws, rowIdx, ColSourceFund),
     !.expense_type = PyStrField(ws, rowIdx, ColExpenseType),
     !.vendor = PyStrField(ws, rowIdx, ColVendor),
     !.description = PyStrField(ws, rowIdx, ColDescription),
     !.itbo_line = PyStrField(ws, rowIdx, ColItboLine),
     !.sow = PyStrField(ws, rowIdx, ColSow),
     !.itbo = PyStrField(ws, rowIdx, ColItbo),
     !.po = PyStrField(ws, rowIdx, ColPo)]

RECURSIVE PyLineItems(_, _, _)
PyLineItems(ws, rowIdx, totalsRow) ==
  IF rowIdx >= totalsRow THEN <<>>
  ELSE IF PyRowSkipped(ws, rowIdx) THEN PyLineItems(ws, rowIdx + 1, totalsRow)
  ELSE <<PyLineItem(ws, rowIdx)>> \o PyLineItems(ws, rowIdx + 1, totalsRow)

\* the JSON written by extract_budget.py for the workbook on the date today
extract_budget(wb, today) ==
  LET ws == wb.Sheets[TargetSheet]
      totalsRow == DetectTotalsRow(ws)
      lineItems == PyLineItems(ws, FirstDataRow, totalsRow)
      agg == Aggregate(lineItems, Len(lineItems))
  IN  [ExtractionResult(wb, today) EXCEPT
         !.metadata.total_line_items = Len(lineItems),
         !.line_items = lineItems,
         !.by_source_fund = agg.by_source_fund,
         !.by_expense_type = agg.by_expense_type,
         !.by_category = agg.by_category,
         !.actuals_detail = agg.actuals_detail]

\* cells read by one pass over a line-item row, and by the totals record
ItemCellReads ==
  10 + 2 + 3 * (NMonths + NQuarters + 1) + 2 * (NMonths + 1) + 1
TotalsCellReads == 2 + 3 * (NMonths + NQuarters + 1) + 2

RECURSIVE LoopCellReads(_, _, _)
LoopCellReads(ws, rowIdx, totalsRow) ==
  IF rowIdx >= totalsRow THEN 0
  ELSE (IF RowSkipped(ws, rowIdx) THEN 2 ELSE ItemCellReads)
         + LoopCellReads(ws, rowIdx + 1, totalsRow)

\* the number of cellVal and cellFormula calls of one successful extraction
CellReads(ws) ==
  LET wsMaxRow == maxRow(ws)
      scan == ScanTotals(ws, FirstDataRow, wsMaxRow)
      scanned == IF scan.found THEN scan.row - FirstDataRow + 1
                 ELSE IF wsMaxRow >= FirstDataRow
                   THEN wsMaxRow - FirstDataRow + 1 ELSE 0
  IN  scanned + LoopCellReads(ws, FirstDataRow, DetectTotalsRow(ws))
        + TotalsCellReads

----------------------------------------------------------------------------
(* api/upload.js: handler, the budget_snapshots table, and
   main.js: fetchFromSupabase *)

Chars_bearer == <<"b", "e", "a", "r", "e", "r">>

\* an object value; a missing property reads as Undefined
Obj(name) == [t |-> "object", name |-> name]

\* auth.replace(/^Bearer\s+/i, ''): a leading "Bearer", in any case, and the
\* white space after it are removed; without that prefix auth is unchanged
StripBearer(auth) ==
  IF /\ Len(auth) > Len(Chars_bearer)
     /\ toLowerCase(SubSeq(auth, 1, Len(Chars_bearer))) = Chars_bearer
     /\ IsWhiteSpace(auth[Len(Chars_bearer) + 1])
    THEN TrimStart(SubSeq(auth, Len(Chars_bearer) + 1, Len(auth)))
    ELSE auth

\* the passphrase test: equal byte lengths and timingSafeEqual (api/upload.js),
\* token === uploadSecret in the earlier version of the handler
TokenMatches(token, uploadSecret) ==
  /\ Len(token) = Len(uploadSecret)
  /\ \A i \in 1..Len(token) : token[i] = uploadSecret[i]

\* "!data || !data.line_items || !data.totals"
BodyInvalid(data) ==
  \/ ~Truthy(data)
  \/ ~Truthy(data.line_items)
  \/ ~Truthy(data.totals)

\* a plausible slip: the body is validated before the token is compared
StatusBeforeInsert_BodyFirst(environment, req) ==
  IF req.method # "POST" THEN 405
  ELSE IF ~Truthy(environment.UPLOAD_SECRET) THEN 500
  ELSE IF BodyInvalid(req.body) THEN 400
  ELSE IF ~TokenMatches(StripBearer(Or(req.authorization, Str(<<>>)).s),
                        environment.UPLOAD_SECRET.s)
    THEN 403
  ELSE IF \/ ~Truthy(environment.VITE_SUPABASE_URL)
          \/ ~Truthy(environment.SUPABASE_SERVICE_ROLE_KEY)
    THEN 500
  ELSE 0

\* the status of the response the handler returns before it calls insert,
\* or 0 when it passes every check and goes on to the insert
StatusBeforeInsert(environment, req) ==
  IF req.method # "POST" THEN 405
  ELSE IF ~Truthy(environment.UPLOAD_SECRET) THEN 500
  ELSE IF ~TokenMatches(StripBearer(Or(req.authorization, Str(<<>>)).s),
                        environment.UPLOAD_SECRET.s)
    THEN 403
  ELSE IF BodyInvalid(req.body) THEN 400
  ELSE IF \/ ~Truthy(environment.VITE_SUPABASE_URL)
          \/ ~Truthy(environment.SUPABASE_SERVICE_ROLE_KEY)
    THEN 500
  ELSE 0

\* the status of the response after the insert has come back
StatusAfterInsert(db) == IF db = "error" THEN 500 ELSE 200

\* the row INSERT adds for the payload: the identity column takes the next
\* value of its sequence, uploaded_at the time of the insert (time stamps are
\* kept as the position in the order of inserts)
NewRow(id, data) == [id |-> id, uploaded_at |-> id, data |-> data]

\* a plausible slip: the rows are ordered by ascending id
LatestRow_Ascending(rows) ==
  CHOOSE row \in {rows[i] : i \in 1..Len(rows)} :
    \A i \in 1..Len(rows) : row.id <= rows[i].id

\* .order('id', { ascending: false }).limit(1).single() on a table with rows
LatestRow(rows) ==
  CHOOSE row \in {rows[i] : i \in 1..Len(rows)} :
    \A i \in 1..Len(rows) : row.id >= rows[i].id

\* what fetchFromSupabase returns: null without a client, on an error of the
\* read and for an empty table, otherwise the data and time of the row read
FetchResult(clientState, rows, readFails) ==
  IF clientState = "none" \/ readFails \/ rows = <<>> THEN Null
  ELSE [budgetData |-> LatestRow(rows).data,
        uploadedAt |-> LatestRow(rows).uploaded_at]

----------------------------------------------------------------------------
(* Input worksheets.  Rows 1-2 are one of two header layouts; every later
   row is one of the row templates: its identity, budget, committed and
   actual cells are the template's, and its other cells follow a pattern
   that gives every column of every row its own number and mixes numeric
   cells, numeric strings, negative fractions, text, stub cells and absent
   cells. *)

C_Travel == <<"T", "r", "a", "v", "e", "l">>
C_Labor == <<"L", "a", "b", "o", "r">>
C_Total == <<" ", "T", "o", "t", "a", "l", " ">>
C_TOTAL == <<"T", "O", "T", "A", "L">>
C_Totals == <<"T", "o", "t", "a", "l", "s">>
C_SOW == <<"S", "O", "W">>
C_Budget == <<"B", "u", "d", "g", "e", "t">>
C_Opex == <<"O", "p", "e", "x">>
C_Capex == <<"C", "a", "p", "e", "x">>
C_Acme == <<"A", "c", "m", "e">>
C_na == <<"n", "/", "a">>
C_Category == <<"C", "a", "t", "e", "g", "o", "r", "y">>
C_125000 == <<"1", "2", "5", "0", "0", "0">>
C_Formula == <<"=", "K", "3", "-", "5", "0", "0">>

S(chars) == ValueCell(Str(chars))
N(n) == ValueCell(Num(n))

RowTemplates ==
  << \* a blank row
     [filled |-> FALSE, cat |-> AbsentCell, ev |-> AbsentCell,
      fund |-> AbsentCell, etype |-> AbsentCell, vendor |-> AbsentCell,
      budget |-> AbsentCell, committed |-> AbsentCell, actual |-> AbsentCell],
     \* Travel, SOW, committed 1000 by formula, actuals booked
     [filled |-> TRUE, cat |-> S(C_Travel), ev |-> S(C_SOW),
      fund |-> S(C_Opex), etype |-> S(C_Labor), vendor |-> S(C_Acme),
      budget |-> N(1500), committed |-> FormulaCell(Num(1000), C_Formula),
      actual |-> N(250)],
     \* Travel, Budget, committed 2000, blank fund and expense type
     [filled |-> TRUE, cat |-> S(C_Travel), ev |-> S(C_Budget),
      fund |-> AbsentCell, etype |-> S(<<>>), vendor |-> AbsentCell,
      budget |-> N(0), committed |-> N(2000), actual |-> N(0)],
     \* Labor, SOW, blank budget, committed "125000" as text
     [filled |-> TRUE, cat |-> S(C_Labor), ev |-> S(C_SOW),
      fund |-> S(C_Capex), etype |-> S(C_Labor), vendor |-> N(0),
      budget |-> S(<<>>), committed |-> S(C_125000), actual |-> S(C_na)],
     \* no category, negative committed, negative fractional actual
     [filled |-> FALSE, cat |-> AbsentCell, ev |-> S(C_SOW),
      fund |-> S(C_Opex), etype |-> AbsentCell, vendor |-> S(C_Acme),
      budget |-> AbsentCell, committed |-> N(-500),
      actual |-> ValueCell(Dec(-5, 1))],
     \* the spreadsheet's own total line, labelled " Total "
     [filled |-> TRUE, cat |-> S(C_Total), ev |-> S(<<>>),
      fund |-> AbsentCell, etype |-> AbsentCell, vendor |-> AbsentCell,
      budget |-> N(9000), committed |-> N(9999), actual |-> N(300)],
     \* event type is the number 0
     [filled |-> TRUE, cat |-> S(C_Labor), ev |-> N(0),
      fund |-> S(C_Opex), etype |-> S(C_Labor), vendor |-> S(C_Acme),
      budget |-> N(800), committed |-> N(700), actual |-> N(10)],
     \* category "Totals", event type is the boolean false
     [filled |-> FALSE, cat |-> S(C_Totals), ev |-> ValueCell(Bool(FALSE)),
      fund |-> S(C_Capex), etype |-> AbsentCell, vendor |-> AbsentCell,
      budget |-> N(60), committed |-> N(50), actual |-> N(5)],
     \* numeric category and event type, boolean expense type
     [filled |-> TRUE, cat |-> N(2026), ev |-> N(7),
      fund |-> S(C_Opex), etype |-> ValueCell(Bool(TRUE)),
      vendor |-> S(C_Acme), budget |-> N(20),
      committed |-> ValueCell(Dec(125, 1)), actual |-> N(3)] >>

\* the cell the pattern puts at (r, c): no two neighbouring columns, and no
\* two neighbouring rows of a column, are both without a number
PatternCell(r, c) ==
  LET n == r * 100 + c
      k == (r + c) % 7
  IN  CASE k = 0 -> AbsentCell
        [] k = 1 -> N(n)
        [] k = 2 -> S(C_na)
        [] k = 3 -> S(NatToDigits(n))
        [] k = 4 -> ValueCell(Undefined)
        [] k = 5 -> ValueCell(Dec(-n, 1))
        [] k = 6 -> N(-n)

TemplateCell(tpl, r, c) ==
  CASE c = 1 -> tpl.cat
    [] c = 2 -> tpl.ev
    [] c = 3 -> tpl.fund
    [] c = 4 -> tpl.etype
    [] c = 5 -> tpl.vendor
    [] c = 11 -> tpl.budget
    [] c = 12 -> tpl.committed
    [] c = 63 -> tpl.actual
    [] OTHER -> IF tpl.filled THEN PatternCell(r, c) ELSE AbsentCell

\* a worksheet row holds its present cells only
TemplateRow(t, r) ==
  LET cellOf(c) == TemplateCell(RowTemplates[t], r, c)
  IN  [c \in {x \in 1..TotalColumns : cellOf(x).present} |-> cellOf(c)]

HeaderLayouts == {"blank", "titled"}

\* a titled sheet: column titles in row 1, a "TOTAL" caption in row 2
HeaderCell(layout, r, c) ==
  CASE layout = "blank" -> AbsentCell
    [] layout = "titled" ->
         (IF c = 1 THEN (IF r = 1 THEN S(C_Category) ELSE S(C_TOTAL))
          ELSE IF c = 2 THEN S(C_SOW) ELSE PatternCell(r, c))

HeaderRow(layout, r) ==
  LET cellOf(c) == HeaderCell(layout, r, c)
  IN  [c \in {x \in 1..TotalColumns : cellOf(x).present} |-> cellOf(c)]

\* every row a worksheet can hold at r, by header layout or template
RowTable ==
  [r \in 1..MaxRow |->
     IF r < FirstDataRow
       THEN [h \in HeaderLayouts |-> HeaderRow(h, r)]
       ELSE [t \in 1..Len(RowTemplates) |-> TemplateRow(t, r)]]

\* the set of rows holding a cell
PopulatedRows(cells) == {r \in DOMAIN cells : DOMAIN cells[r] # {}}

SetMax(set) == CHOOSE x \in set : \A y \in set : y <= x

\* '!ref' spans the populated rows; a sheet without cells has none
RefOf(cells) ==
  IF PopulatedRows(cells) = {} THEN [present |-> FALSE]
  ELSE [present |-> TRUE, e |-> [r |-> SetMax(PopulatedRows(cells)) - 1]]

Sheet(cells) == [ref |-> RefOf(cells), cells |-> cells]

Worksheets ==
  { Sheet([r \in 1..MaxRow |->
             IF r < FirstDataRow THEN RowTable[r][h]
             ELSE RowTable[r][pick[r]]]) :
      h \in HeaderLayouts,
      pick \in [FirstDataRow..MaxRow -> 1..Len(RowTemplates)] }

EmptySheet == Sheet([r \in 1..MaxRow |-> <<>>])

Book(names, ws) ==
  [SheetNames |-> names,
   Sheets |-> [n \in {names[i] : i \in 1..Len(names)} |->
                 IF n = TargetSheet THEN ws ELSE EmptySheet]]

MissingSheetNames ==
  { <<>>, <<"Sheet1">>, <<"Sheet1", "2025 Budget">>, <<"2026 budget">>,
    <<"Sheet1", "2025 Budget", "Notes">> }

Workbooks ==
  { Book(<<"2025 Budget", TargetSheet>>, ws) : ws \in Worksheets }
    \cup { Book(names, EmptySheet) : names \in MissingSheetNames }

Dates == {"2026-11-05", "2026-11-06"}

----------------------------------------------------------------------------
(* Inputs of the numeric coercion: null, undefined, booleans, integers and
   tenths up to MaxNum in magnitude, and every string of at most MaxStrLen
   characters over CoerceChars, with a few longer ones. *)

CoerceChars == {"0", "1", "5", "-", "+", ".", " ", "a"}

RECURSIVE StringsUpTo(_)
StringsUpTo(n) ==
  IF n = 0 THEN {<<>>}
  ELSE LET shorter == StringsUpTo(n - 1)
       IN  shorter \cup {Append(s, c) : s \in shorter, c \in CoerceChars}

CellValues ==
  {Null, Undefined, Bool(TRUE), Bool(FALSE)}
    \cup {Num(n) : n \in -MaxNum..MaxNum}
    \cup {Dec(n, 1) : n \in -MaxNum..MaxNum}
    \cup {Str(s) : s \in StringsUpTo(MaxStrLen)}
    \cup {Str(C_125000), Str(C_na), Str(Chars_Infinity),
          Str(<<"-">> \o Chars_Infinity), Str(<<" ", "-", "1", "2", ".", "5", "0", " ">>)}

----------------------------------------------------------------------------
(* Inputs of the upload handler: deployments with and without the secret
   and the database credentials, and requests with the secret "s3" sent
   with and without the Bearer scheme, a wrong token, another scheme and no
   header, each with a valid payload, a payload without totals or no body. *)

C_s3 == <<"s", "3">>
C_Bearer_s3 == <<"B", "e", "a", "r", "e", "r", " ", "s", "3">>
C_bearer_s3 == <<"b", "e", "a", "r", "e", "r", " ", "\t", "s", "3">>
C_Bearer_x9 == <<"B", "e", "a", "r", "e", "r", " ", "x", "9">>
C_Basic_s3 == <<"B", "a", "s", "i", "c", " ", "s", "3">>

Environment(secret, url, key) ==
  [UPLOAD_SECRET |-> secret, VITE_SUPABASE_URL |-> url,
   SUPABASE_SERVICE_ROLE_KEY |-> key]

Environments ==
  { Environment(Str(C_s3), Str(<<"u">>), Str(<<"k">>)),
    Environment(Undefined, Str(<<"u">>), Str(<<"k">>)),
    Environment(Str(<<>>), Str(<<"u">>), Str(<<"k">>)),
    Environment(Str(C_s3), Undefined, Str(<<"k">>)),
    Environment(Str(C_s3), Str(<<"u">>), Str(<<>>)) }

AuthHeaders ==
  { Undefined, Str(C_s3), Str(C_Bearer_s3), Str(C_bearer_s3),
    Str(C_Bearer_x9), Str(C_Basic_s3) }

\* an extraction result as a request body, by a name that tells payloads
\* apart
Payload(name) ==
  [t |-> "object", name |-> name,
   line_items |-> Obj("line_items"), totals |-> Obj("totals")]

Bodies ==
  { Payload("A"), Payload("B"),
    [t |-> "object", name |-> "partial",
     line_items |-> Obj("line_items"), totals |-> Undefined],
    Undefined }

Requests ==
  { [method |-> "POST", authorization |-> a, body |-> b] :
      a \in AuthHeaders, b \in Bodies }
    \cup { [method |-> "GET", authorization |-> Str(C_Bearer_s3),
            body |-> Undefined] }

\* the invocations of the serverless function that may be in flight together
Handlers == {"h1", "h2"}

IdleHandler == [pc |-> "idle", req |-> Undefined, status |-> 0, db |-> "none"]

----------------------------------------------------------------------------
(* The dashboard page, main.js: boot, the upload panel and the refresh
   button. *)

\* import('./data/budget.json'): the import fails, or gives the module whose
\* default export is the bundled JSON
LocalBundles ==
  { [ok |-> FALSE],
    [ok |-> TRUE, default |-> Payload("L")],
    [ok |-> TRUE, default |-> Null] }

\* budget_snapshots as the page may find it
SnapshotTables ==
  { <<>>,
    <<NewRow(1, Payload("A"))>>,
    <<NewRow(1, Payload("A")), NewRow(2, Payload("B"))>>,
    <<NewRow(2, Payload("B")), NewRow(4, Payload("A"))>> }

\* a plausible slip: the bundled file is preferred to the snapshot
LoadResult_LocalFirst(remote, bundle) ==
  IF bundle.ok
    THEN [data |-> bundle.default, source |-> "local", uploadedAt |-> Null]
  ELSE IF remote # Null
    THEN [data |-> remote.budgetData, source |-> "supabase",
          uploadedAt |-> remote.uploadedAt]
  ELSE [data |-> Null, source |-> "none", uploadedAt |-> Null]

\* what loadBudgetData returns, given what fetchFromSupabase returned and
\* how the import of the bundled JSON goes
LoadResult(remote, bundle) ==
  IF remote # Null
    THEN [data |-> remote.budgetData, source |-> "supabase",
          uploadedAt |-> remote.uploadedAt]
  ELSE IF bundle.ok
    THEN [data |-> bundle.default, source |-> "local", uploadedAt |-> Null]
  ELSE [data |-> Null, source |-> "none", uploadedAt |-> Null]

\* the boot handler before loadBudgetData has been called
BootAtLoad(bundle) ==
  [pc |-> "start", bundle |-> bundle, loaded |-> Undefined, view |-> "static"]

\* the files a user may drop or pick: two workbooks extractBudget accepts
\* and one it throws on
PanelFiles == {"A", "B", "bad"}

\* read(arrayBuffer) or extractBudget(workbook) throws
ParseFails(file) == file = "bad"

\* extractBudget(read(await file.arrayBuffer(), { type: 'array' }))
ParsedData(file) == Payload(file)

ShownStatus(text, isError) ==
  [text |-> text, isError |-> isError, hidden |-> FALSE]

\* the panel's closure and elements once initUploadPanel has run; without
\* ?admin= the panel is removed and no listener is registered
PanelAtLoad(mounted) ==
  [mounted |-> mounted,
   pendingData |-> Null,
   parses |-> <<>>,
   preview |-> [data |-> Null, hidden |-> TRUE],
   confirmHidden |-> TRUE,
   cancelHidden |-> TRUE,
   confirmDisabled |-> FALSE,
   status |-> [text |-> "", isError |-> FALSE, hidden |-> TRUE],
   request |-> Null,
   reloadScheduled |-> FALSE,
   lastAction |-> "none"]

\* handleFile(file) up to its first await
HandleFile(p, file) ==
  [p EXCEPT !.status = ShownStatus("Parsing Excel file...", FALSE),
            !.parses = Append(@, file)]

RemoveAt(seq, i) == SubSeq(seq, 1, i - 1) \o SubSeq(seq, i + 1, Len(seq))

\* a plausible slip: the catch branch keeps the file as the pending data
ParseSettled_KeepFailed(p, i) ==
  [p EXCEPT !.parses = RemoveAt(@, i),
            !.pendingData = Payload(p.parses[i]),
            !.status = ShownStatus("Parse error", TRUE)]

\* the rest of handleFile for the i-th parse in progress: the try block
\* after its awaits, or the catch block
ParseSettled(p, i) ==
  LET file == p.parses[i]
  IN  IF ParseFails(file)
        THEN [p EXCEPT !.parses = RemoveAt(@, i),
                       !.status = ShownStatus("Parse error", TRUE)]
        ELSE [p EXCEPT !.parses = RemoveAt(@, i),
                       !.pendingData = ParsedData(file),
                       !.preview = [data |-> ParsedData(file), hidden |-> FALSE],
                       !.confirmHidden = FALSE,
                       !.cancelHidden = FALSE,
                       !.status.hidden = TRUE]

\* the click listener of the Cancel button
CancelClicked(p) ==
  [p EXCEPT !.pendingData = Null,
            !.preview.hidden = TRUE,
            !.confirmHidden = TRUE,
            !.cancelHidden = TRUE,
            !.status.hidden = TRUE]

\* the click listener of the Confirm button up to its first await; the
\* request body is JSON.stringify(pendingData) as of the click
ConfirmClicked(p) ==
  IF ~Truthy(p.pendingData) THEN p
  ELSE [p EXCEPT !.confirmDisabled = TRUE,
                 !.status = ShownStatus("Uploading to server...", FALSE),
                 !.request = [method |-> "POST", url |-> "/api/upload",
                              body |-> p.pendingData]]

\* how a POST to /api/upload may settle: a JSON answer with ok, a JSON
\* answer without it, or no JSON answer at all (fetch or res.json() rejects)
UploadAnswers == {"ok", "not ok", "failed"}

\* a plausible slip: the catch branch does not enable the button again
UploadSettled_StaysDisabled(p, answer) ==
  IF answer = "ok"
    THEN [p EXCEPT !.request = Null,
                   !.status = ShownStatus("Upload successful! Reloading...", FALSE),
                   !.reloadScheduled = TRUE]
  ELSE IF answer = "not ok"
    THEN [p EXCEPT !.request = Null,
                   !.status = ShownStatus("Upload failed", TRUE),
                   !.confirmDisabled = FALSE]
  ELSE [p EXCEPT !.request = Null,
                 !.status = ShownStatus("Network error", TRUE)]

\* the rest of the Confirm listener once the request has settled
UploadSettled(p, answer) ==
  IF answer = "ok"
    THEN [p EXCEPT !.request = Null,
                   !.status = ShownStatus("Upload successful! Reloading...", FALSE),
                   !.reloadScheduled = TRUE]
  ELSE IF answer = "not ok"
    THEN [p EXCEPT !.request = Null,
                   !.status = ShownStatus("Upload failed", TRUE),
                   !.confirmDisabled = FALSE]
  ELSE [p EXCEPT !.request = Null,
                 !.status = ShownStatus("Network error", TRUE),
                 !.confirmDisabled = FALSE]

\* the refresh button and its elements once initRefreshButton has run;
\* isProduction is !!SUPABASE_URL
RefreshAtLoad(isProduction) ==
  [isProduction |-> isProduction,
   disabled |-> FALSE,
   spinning |-> FALSE,
   status |-> [text |-> "", hidden |-> TRUE],
   inFlight |-> 0,
   hideTimers |-> 0,
   reloadScheduled |-> FALSE]

\* a plausible slip: the listener does not return for a disabled button
RefreshClicked_Unguarded(r) ==
  [r EXCEPT !.disabled = TRUE,
            !.spinning = TRUE,
            !.status = [text |-> IF r.isProduction THEN "Fetching latest..."
                                 ELSE "Extracting...",
                        hidden |-> FALSE],
            !.inFlight = @ + 1]

\* the click listener of the refresh button up to its await
RefreshClicked(r) ==
  IF r.disabled THEN r
  ELSE [r EXCEPT !.disabled = TRUE,
                 !.spinning = TRUE,
                 !.status = [text |-> IF r.isProduction THEN "Fetching latest..."
                                      ELSE "Extracting...",
                             hidden |-> FALSE],
                 !.inFlight = @ + 1]

\* the answer of the dev server's extractPlugin to POST /__extract, given
\* whether execFile reported an error (a failed or timed-out script)
ExtractPluginAnswer(execError) ==
  IF execError THEN [statusCode |-> 500, ok |-> FALSE]
  ELSE [statusCode |-> 200, ok |-> TRUE]

\* the status text of the branch the listener takes: in production by what
\* fetchFromSupabase returned, in local mode by the answer to POST
\* /__extract, Undefined when the request or res.json() rejected
RefreshBranch(r, remote, answer) ==
  IF r.isProduction
    THEN IF remote # Null THEN "Updated! Reloading..." ELSE "No data found"
  ELSE IF answer = Undefined THEN "Network error"
  ELSE IF answer.ok THEN "Done! Reloading..."
  ELSE "Error"

RefreshSucceeded(text) == text \in {"Updated! Reloading...", "Done! Reloading..."}

\* a plausible slip: the "No data found" branch leaves the button disabled
RefreshSettled_NoDataStaysDisabled(r, text) ==
  IF RefreshSucceeded(text)
    THEN [r EXCEPT !.inFlight = @ - 1,
                   !.status.text = text,
                   !.reloadScheduled = TRUE]
  ELSE [r EXCEPT !.inFlight = @ - 1,
                 !.status.text = text,
                 !.spinning = FALSE,
                 !.disabled = IF text = "No data found" THEN @ ELSE FALSE,
                 !.hideTimers = @ + 1]

\* the rest of the listener once its request has settled, for the branch
\* with the given status text
RefreshSettled(r, text) ==
  IF RefreshSucceeded(text)
    THEN [r EXCEPT !.inFlight = @ - 1,
                   !.status.text = text,
                   !.reloadScheduled = TRUE]
  ELSE [r EXCEPT !.inFlight = @ - 1,
                 !.status.text = text,
                 !.spinning = FALSE,
                 !.disabled = FALSE,
                 !.hideTimers = @ + 1]

----------------------------------------------------------------------------
(* State *)

VARIABLES
  pc,         \* "ready", "returned", "thrown"; "coerce", "coerced"
  workbook,   \* the workbook handed to extractBudget
  result,     \* the object extractBudget returned, Undefined before
  error,      \* the message of the Error extractBudget threw, <<>> if none
  totalsRow,  \* extractBudget's local totalsRow, 0 before it is set
  nReads,     \* cells read by the call
  val,        \* the argument of safeFloat
  coerced,    \* what safeFloat returned
  moduleArrays, \* the contents of the module-level arrays MONTHS, QUARTERS
  again,      \* the second call of a run: Undefined, or whether it was
              \* given the same workbook and the object it returned
  touched,    \* the result whose array the caller has pushed onto: "none",
              \* "result" or "again"
  env,        \* process.env of the upload function
  client,     \* the dashboard's supabase client: "configured" or "none"
  handlers,   \* per invocation of the upload handler: where it is ("idle",
              \* "inserting", "resuming", "responded"), its request, the
              \* status it responded with and how its insert went
  snapshots,  \* the rows of budget_snapshots, in the order of insertion
  nextId,     \* the next value of the identity sequence of budget_snapshots
  fetched,    \* what the last fetchFromSupabase returned, Undefined before
  budgetData, \* main.js' module-level budgetData
  boot,       \* the DOMContentLoaded handler: where it is ("start",
              \* "fetched", "loaded", "done"), how the import of the bundled
              \* JSON goes, what loadBudgetData returned, and what <main>
              \* shows ("static", "empty", "dashboard")
  panel,      \* the upload panel: the closure's pendingData, the files whose
              \* handleFile is at an await, the elements' state, the POST in
              \* flight, whether a reload is scheduled, and the user's last
              \* action ("none", "cancel" or the file selected)
  refresh     \* the refresh button: its elements' state, the requests in
              \* flight, the pending timers that hide the status, and
              \* whether a reload is scheduled

extractVars == <<pc, workbook, result, error, totalsRow, nReads>>
coerceVars == <<val, coerced>>
runVars == <<moduleArrays, again, touched>>
uploadVars == <<env, client, handlers, snapshots, nextId, fetched>>
pageVars == <<budgetData, boot, panel, refresh>>

vars == <<pc, workbook, result, error, totalsRow, nReads, val, coerced,
          moduleArrays, again, touched,
          env, client, handlers, snapshots, nextId, fetched,
          budgetData, boot, panel, refresh>>

\* no page: the module is loaded, DOMContentLoaded has not fired
NoPage ==
  /\ budgetData = Null
  /\ boot = BootAtLoad([ok |-> FALSE])
  /\ panel = PanelAtLoad(FALSE)
  /\ refresh = RefreshAtLoad(FALSE)

\* no deployment: nothing is configured, no request, an empty table
NoUpload ==
  /\ env = Environment(Undefined, Undefined, Undefined)
  /\ client = "none"
  /\ handlers = [h \in Handlers |-> IdleHandler]
  /\ snapshots = <<>>
  /\ nextId = 1
  /\ fetched = Undefined

Init ==
  /\ pc = "ready"
  /\ workbook \in Workbooks
  /\ result = Undefined
  /\ error = <<>>
  /\ totalsRow = 0
  /\ nReads = 0
  /\ val = Null
  /\ coerced = Undefined
  /\ moduleArrays = ModuleArraysAtLoad
  /\ again = Undefined
  /\ touched = "none"
  /\ NoUpload
  /\ NoPage

\* one call of extractBudget(workbook)
ExtractBudget ==
  /\ pc = "ready"
  /\ IF SheetMissing(workbook)
       THEN /\ pc' = "thrown"
            /\ error' = ErrorMessage(workbook)
            /\ UNCHANGED <<workbook, result, totalsRow, nReads>>
       ELSE /\ pc' = "returned"
            /\ \E today \in Dates :
                 result' = ExtractionResult(workbook, today)
            /\ totalsRow' = DetectTotalsRow(workbook.Sheets[TargetSheet])
            /\ nReads' = CellReads(workbook.Sheets[TargetSheet])
            /\ workbook' = WorkbookAfterExtract(workbook)
            /\ UNCHANGED error
  /\ UNCHANGED <<coerceVars, runVars, uploadVars, pageVars>>

Next == ExtractBudget

Spec == Init /\ [][Next]_vars

InitCoerce ==
  /\ pc = "coerce"
  /\ val \in CellValues
  /\ coerced = Undefined
  /\ workbook = Book(<<>>, EmptySheet)
  /\ result = Undefined
  /\ error = <<>>
  /\ totalsRow = 0
  /\ nReads = 0
  /\ moduleArrays = ModuleArraysAtLoad
  /\ again = Undefined
  /\ touched = "none"
  /\ NoUpload
  /\ NoPage

\* one call of safeFloat(val)
SafeFloat ==
  /\ pc = "coerce"
  /\ coerced' = safeFloat(val)
  /\ pc' = "coerced"
  /\ UNCHANGED <<workbook, result, error, totalsRow, nReads, val, runVars,
                 uploadVars, pageVars>>

NextCoerce == SafeFloat

SpecCoerce == InitCoerce /\ [][NextCoerce]_vars

----------------------------------------------------------------------------
(* Two calls in one module instance.  A caller extracts a workbook, then
   extracts again (the same workbook or another one), and may push an
   element onto one array of one of the results it holds. *)

\* titled sheets with two template rows and the " Total " line in the third
RunSheets ==
  LET first == FirstDataRow
      last == FirstDataRow + 2
      totalLine == CHOOSE t \in 1..Len(RowTemplates) :
                     RowTemplates[t].cat = S(C_Total)
  IN  { Sheet([r \in 1..last |->
                 IF r < first THEN RowTable[r]["titled"]
                 ELSE IF r = last THEN RowTable[r][totalLine]
                 ELSE RowTable[r][pick[r]]]) :
          pick \in [first..(last - 1) -> 1..Len(RowTemplates)] }

RunWorkbooks ==
  { Book(<<"2025 Budget", TargetSheet>>, ws) : ws \in RunSheets }
    \cup { Book(<<"Sheet1">>, EmptySheet) }

\* the workbook of a second call that is not the first call's workbook
OtherBook ==
  LET last == FirstDataRow + 2
      travel == CHOOSE t \in 1..Len(RowTemplates) :
                  RowTemplates[t].ev = S(C_Budget)
  IN  Book(<<TargetSheet>>,
           Sheet([r \in 1..last |->
                    IF r < FirstDataRow THEN RowTable[r]["blank"]
                    ELSE RowTable[r][travel]]))

InitRuns ==
  /\ pc = "ready"
  /\ workbook \in RunWorkbooks
  /\ result = Undefined
  /\ error = <<>>
  /\ totalsRow = 0
  /\ nReads = 0
  /\ val = Null
  /\ coerced = Undefined
  /\ moduleArrays = ModuleArraysAtLoad
  /\ again = Undefined
  /\ touched = "none"
  /\ NoUpload
  /\ NoPage

\* a second call of extractBudget, on the first call's workbook or on
\* another one
ExtractAgain ==
  /\ pc = "returned"
  /\ again = Undefined
  /\ \E same \in BOOLEAN, today \in Dates :
       IF same
         THEN /\ again' = [same |-> TRUE,
                           result |-> ExtractionResult(workbook, today)]
              /\ workbook' = WorkbookAfterExtract(workbook)
         ELSE /\ again' = [same |-> FALSE,
                           result |-> ExtractionResult(OtherBook, today)]
              /\ UNCHANGED workbook
  /\ UNCHANGED <<pc, result, error, totalsRow, nReads, coerceVars,
                 moduleArrays, touched, uploadVars, pageVars>>

\* what the caller pushes onto an array of a result
Pushed(field) ==
  IF field \in ModuleArrayFields THEN "Extra" ELSE [id |-> 0]

\* the caller pushes one element onto one array of a result it holds: onto
\* the module-level array when the field refers to one, onto the result's
\* own array otherwise
MutateResult ==
  /\ pc = "returned"
  /\ touched = "none"
  /\ \E which \in {"result"} \cup (IF again = Undefined THEN {} ELSE {"again"}),
        field \in ModuleArrayFields \cup FreshArrayFields :
       LET res == IF which = "result" THEN result ELSE again.result
       IN  /\ touched' = which
           /\ IF field \in ModuleArrayFields
                THEN /\ moduleArrays' =
                          [moduleArrays EXCEPT
                             ![res[field].ref] = Append(@, Pushed(field))]
                     /\ UNCHANGED <<result, again>>
                ELSE /\ UNCHANGED moduleArrays
                     /\ IF which = "result"
                          THEN /\ result' =
                                    [result EXCEPT
                                       ![field] = Append(@, Pushed(field))]
                               /\ UNCHANGED again
                          ELSE /\ again' =
                                    [again EXCEPT
                                       !.result[field] =
                                          Append(@, Pushed(field))]
                               /\ UNCHANGED result
  /\ UNCHANGED <<pc, workbook, error, totalsRow, nReads, coerceVars,
                 uploadVars, pageVars>>

NextRuns == ExtractBudget \/ ExtractAgain \/ MutateResult

SpecRuns == InitRuns /\ [][NextRuns]_vars

----------------------------------------------------------------------------
(* Uploads and dashboard reads.  Two invocations of the upload handler may
   be in flight together; each runs up to its insert call in one go, the
   database applies or refuses the insert, and the handler responds.  The
   dashboard may call fetchFromSupabase at any moment. *)

InitUpload ==
  /\ pc = "serving"
  /\ workbook = Book(<<>>, EmptySheet)
  /\ result = Undefined
  /\ error = <<>>
  /\ totalsRow = 0
  /\ nReads = 0
  /\ val = Null
  /\ coerced = Undefined
  /\ moduleArrays = ModuleArraysAtLoad
  /\ again = Undefined
  /\ touched = "none"
  /\ env \in Environments
  /\ client \in {"configured", "none"}
  /\ handlers = [h \in Handlers |-> IdleHandler]
  /\ snapshots = <<>>
  /\ nextId = 1
  /\ fetched = Undefined
  /\ NoPage

\* a request arrives and the handler runs up to its first await: it
\* responds at once, or calls insert
Receive(h) ==
  /\ handlers[h].pc = "idle"
  /\ \E req \in Requests :
       LET status == StatusBeforeInsert(env, req)
       IN  handlers' =
             [handlers EXCEPT
                ![h] = [pc |-> IF status = 0 THEN "inserting" ELSE "responded",
                        req |-> req, status |-> status, db |-> "none"]]
  /\ UNCHANGED <<env, client, snapshots, nextId, fetched,
                 extractVars, coerceVars, runVars, pageVars>>

\* the database executes "insert({ data })": it adds the row, or fails, in
\* which case the identity value may be used up all the same
DbInsert(h) ==
  /\ handlers[h].pc = "inserting"
  /\ \/ /\ snapshots' = Append(snapshots, NewRow(nextId, handlers[h].req.body))
        /\ nextId' = nextId + 1
        /\ handlers' = [handlers EXCEPT ![h].pc = "resuming", ![h].db = "ok"]
     \/ /\ UNCHANGED snapshots
        /\ nextId' \in {nextId, nextId + 1}
        /\ handlers' = [handlers EXCEPT ![h].pc = "resuming", ![h].db = "error"]
  /\ UNCHANGED <<env, client, fetched, extractVars, coerceVars, runVars,
                 pageVars>>

\* the handler resumes after the await and responds
Respond(h) ==
  /\ handlers[h].pc = "resuming"
  /\ handlers' = [handlers EXCEPT
                    ![h].pc = "responded",
                    ![h].status = StatusAfterInsert(handlers[h].db)]
  /\ UNCHANGED <<env, client, snapshots, nextId, fetched,
                 extractVars, coerceVars, runVars, pageVars>>

\* the dashboard calls fetchFromSupabase; the read may fail
FetchFromSupabase ==
  /\ \E readFails \in BOOLEAN :
       fetched' = FetchResult(client, snapshots, readFails)
  /\ UNCHANGED <<env, client, handlers, snapshots, nextId,
                 extractVars, coerceVars, runVars, pageVars>>

NextUpload ==
  \/ \E h \in Handlers : Receive(h)
  \/ \E h \in Handlers : DbInsert(h)
  \/ \E h \in Handlers : Respond(h)
  \/ FetchFromSupabase

SpecUpload == InitUpload /\ [][NextUpload]_vars

\* the database answers every insert it is sent, with the row or with an
\* error, and the runtime resumes a handler whose awaited insert has settled
SpecUploadLive ==
  SpecUpload /\ \A h \in Handlers : WF_vars(DbInsert(h)) /\ WF_vars(Respond(h))

----------------------------------------------------------------------------
(* The page.  Each of the three parts below runs the listeners of main.js
   on one page load; an await of a listener ends one step, and what the
   awaited promise settles to starts the next. *)

\* nothing is extracted and no upload is served while the page runs
PageOnly ==
  /\ pc = "page"
  /\ workbook = Book(<<>>, EmptySheet)
  /\ result = Undefined
  /\ error = <<>>
  /\ totalsRow = 0
  /\ nReads = 0
  /\ val = Null
  /\ coerced = Undefined
  /\ moduleArrays = ModuleArraysAtLoad
  /\ again = Undefined
  /\ touched = "none"
  /\ env = Environment(Undefined, Undefined, Undefined)
  /\ handlers = [h \in Handlers |-> IdleHandler]
  /\ nextId = 1
  /\ fetched = Undefined
  /\ budgetData = Null

notPageVars ==
  <<extractVars, coerceVars, runVars, env, client, handlers, snapshots, nextId>>

(* Boot: the DOMContentLoaded handler. *)

InitBoot ==
  /\ PageOnly
  /\ client \in {"configured", "none"}
  /\ snapshots \in SnapshotTables
  /\ \E bundle \in LocalBundles : boot = BootAtLoad(bundle)
  /\ panel = PanelAtLoad(FALSE)
  /\ refresh = RefreshAtLoad(FALSE)

\* loadBudgetData awaits fetchFromSupabase(), which returns a snapshot or
\* null: an error of the query and an exception in it both give null
FetchRemote ==
  /\ boot.pc = "start"
  /\ \E readFails \in BOOLEAN :
       fetched' = FetchResult(client, snapshots, readFails)
  /\ boot' = [boot EXCEPT !.pc = "fetched"]
  /\ UNCHANGED <<notPageVars, budgetData, panel, refresh>>

\* loadBudgetData returns: the snapshot, or the bundled JSON once its import
\* has settled
LoadBudgetData ==
  /\ boot.pc = "fetched"
  /\ boot' = [boot EXCEPT !.pc = "loaded",
                          !.loaded = LoadResult(fetched, boot.bundle)]
  /\ UNCHANGED <<notPageVars, fetched, budgetData, panel, refresh>>

\* the handler after "await loadBudgetData()": showEmptyState and return,
\* or set budgetData and initDashboard
ShowPage ==
  /\ boot.pc = "loaded"
  /\ IF ~Truthy(boot.loaded.data)
       THEN /\ boot' = [boot EXCEPT !.pc = "done", !.view = "empty"]
            /\ UNCHANGED budgetData
       ELSE /\ budgetData' = boot.loaded.data
            /\ boot' = [boot EXCEPT !.pc = "done", !.view = "dashboard"]
  /\ UNCHANGED <<notPageVars, fetched, panel, refresh>>

NextBoot == FetchRemote \/ LoadBudgetData \/ ShowPage

SpecBoot == InitBoot /\ [][NextBoot]_vars

(* The upload panel.  A user selects files, clicks Cancel and Confirm in any
   order; every handleFile in progress may be the next to finish. *)

MaxParses == 2

InitPanel ==
  /\ PageOnly
  /\ client = "none"
  /\ snapshots = <<>>
  /\ boot = BootAtLoad([ok |-> FALSE])
  /\ \E mounted \in BOOLEAN : panel = PanelAtLoad(mounted)
  /\ refresh = RefreshAtLoad(FALSE)

\* a drop on the drop zone or a change of the file input
SelectFile(file) ==
  /\ panel.mounted
  /\ Len(panel.parses) < MaxParses
  /\ panel' = [HandleFile(panel, file) EXCEPT !.lastAction = file]
  /\ UNCHANGED <<notPageVars, fetched, budgetData, boot, refresh>>

\* the awaits of one handleFile in progress settle
ParseSettles(i) ==
  /\ i \in 1..Len(panel.parses)
  /\ panel' = ParseSettled(panel, i)
  /\ UNCHANGED <<notPageVars, fetched, budgetData, boot, refresh>>

\* a click on the Cancel button, which a user can reach only while it is
\* shown
ClickCancel ==
  /\ panel.mounted
  /\ ~panel.cancelHidden
  /\ panel' = [CancelClicked(panel) EXCEPT !.lastAction = "cancel"]
  /\ UNCHANGED <<notPageVars, fetched, budgetData, boot, refresh>>

\* a click on the Confirm button, which a user can reach only while it is
\* shown; the listener does not test disabled itself, a disabled button
\* receives no click event
ClickConfirm ==
  /\ panel.mounted
  /\ ~panel.confirmHidden
  /\ ~panel.confirmDisabled
  /\ panel' = ConfirmClicked(panel)
  /\ UNCHANGED <<notPageVars, fetched, budgetData, boot, refresh>>

\* the POST in flight settles
UploadSettles ==
  /\ panel.request # Null
  /\ \E answer \in UploadAnswers : panel' = UploadSettled(panel, answer)
  /\ UNCHANGED <<notPageVars, fetched, budgetData, boot, refresh>>

\* the timer of "setTimeout(() => location.reload(), 800)" fires
PanelReload ==
  /\ panel.reloadScheduled
  /\ panel' = PanelAtLoad(panel.mounted)
  /\ UNCHANGED <<notPageVars, fetched, budgetData, boot, refresh>>

NextPanel ==
  \/ \E file \in PanelFiles : SelectFile(file)
  \/ \E i \in 1..MaxParses : ParseSettles(i)
  \/ ClickCancel
  \/ ClickConfirm
  \/ UploadSettles
  \/ PanelReload

SpecPanel == InitPanel /\ [][NextPanel]_vars

\* a fetch settles: the server answers or the browser gives the request up
SpecPanelLive == SpecPanel /\ WF_vars(UploadSettles)

(* The refresh button. *)

MaxTimers == 2

InitRefresh ==
  /\ PageOnly
  /\ snapshots \in SnapshotTables
  /\ \E isProduction \in BOOLEAN :
       /\ refresh = RefreshAtLoad(isProduction)
       /\ client \in (IF isProduction THEN {"configured", "none"} ELSE {"none"})
  /\ boot = BootAtLoad([ok |-> FALSE])
  /\ panel = PanelAtLoad(FALSE)

\* a click event reaches the listener of the refresh button, which tests
\* disabled itself
ClickRefresh ==
  /\ refresh.hideTimers < MaxTimers
  /\ refresh' = RefreshClicked(refresh)
  /\ UNCHANGED <<notPageVars, fetched, budgetData, boot, panel>>

\* the request of a refresh in flight settles: fetchFromSupabase returns in
\* production; in local mode the dev server answers POST /__extract after
\* execFile's callback, or the request or res.json() rejects
RefreshSettles ==
  /\ refresh.inFlight > 0
  /\ IF refresh.isProduction
       THEN \E readFails \in BOOLEAN :
              LET remote == FetchResult(client, snapshots, readFails)
              IN  /\ fetched' = remote
                  /\ budgetData' =
                       (IF remote # Null THEN remote.budgetData ELSE budgetData)
                  /\ refresh' =
                       RefreshSettled(refresh,
                                      RefreshBranch(refresh, remote, Undefined))
       ELSE /\ \E answer \in {ExtractPluginAnswer(TRUE),
                               ExtractPluginAnswer(FALSE), Undefined} :
                 refresh' =
                   RefreshSettled(refresh, RefreshBranch(refresh, Null, answer))
            /\ UNCHANGED <<fetched, budgetData>>
  /\ UNCHANGED <<notPageVars, boot, panel>>

\* a timer of "setTimeout(() => status.classList.add('hidden'), 3000)" fires
HideTimerFires ==
  /\ refresh.hideTimers > 0
  /\ refresh' = [refresh EXCEPT !.hideTimers = @ - 1, !.status.hidden = TRUE]
  /\ UNCHANGED <<notPageVars, fetched, budgetData, boot, panel>>

\* the timer of "setTimeout(() => location.reload(), 600)" fires
RefreshReload ==
  /\ refresh.reloadScheduled
  /\ refresh' = RefreshAtLoad(refresh.isProduction)
  /\ budgetData' = Null
  /\ fetched' = Undefined
  /\ UNCHANGED <<notPageVars, boot, panel>>

NextRefresh == ClickRefresh \/ RefreshSettles \/ HideTimerFires \/ RefreshReload

SpecRefresh == InitRefresh /\ [][NextRefresh]_vars

\* the awaited request settles: the Supabase query and the fetch end, and
\* execFile calls back within its 30 s timeout
SpecRefreshLive == SpecRefresh /\ WF_vars(RefreshSettles)

----------------------------------------------------------------------------
(* Properties.  The helpers below restate what a property needs in terms of
   the worksheet itself, not of the operators of the extraction. *)

TheSheet == workbook.Sheets[TargetSheet]
SheetPresent == TargetSheet \in {workbook.SheetNames[i] : i \in 1..Len(workbook.SheetNames)}
Items == result.line_items

\* the raw cell at (r, c) of the target sheet, AbsentCell when there is none
RawCell(r, c) ==
  IF r \in DOMAIN TheSheet.cells /\ c \in DOMAIN TheSheet.cells[r]
    THEN TheSheet.cells[r][c] ELSE AbsentCell

\* s, between leading and trailing white space, is a decimal literal:
\* an optional sign, then digits with at most one point and at least one digit
LooksNumeric(s) ==
  \E a \in 1..Len(s), b \in 1..Len(s) :
    /\ a <= b
    /\ \A i \in 1..Len(s) : (i < a \/ i > b) => s[i] \in {" ", "\t", "\n"}
    /\ LET from == IF s[a] \in {"+", "-"} THEN a + 1 ELSE a
       IN  /\ from <= b
           /\ \A i \in from..b : IsDigit(s[i]) \/ s[i] = "."
           /\ Cardinality({i \in from..b : s[i] = "."}) <= 1
           /\ \E i \in from..b : IsDigit(s[i])

\* C1: safeFloat(v) is a finite number for every cell value v (null, absent,
\* empty string, text, negative, fractional, numeric string), and it is
\* exactly 0 when v is null/absent, the empty string, or text that is not a
\* decimal literal; it is never null, NaN or an infinity.
C1_CoercionTotal ==
  pc = "coerced" =>
    /\ coerced.t = "number" /\ coerced.k = "fin"
    /\ (val.t \in {"null", "undefined"}) => (coerced.m = 0 /\ coerced.e = 0)
    /\ (val.t = "string" /\ ~LooksNumeric(val.s)) =>
         (coerced.m = 0 /\ coerced.e = 0)
    /\ (val.t = "string" /\ val.s = C_125000) =>
         (coerced.m = 125000 /\ coerced.e = 0)

\* C1 witness: non-numeric text has been coerced to 0
C1_Witness ==
  /\ pc = "coerced"
  /\ val = Str(C_na)
  /\ coerced = Num(0)

\* the event-type cell of row r, stringified: absent gives the empty string
EventTypeText(r) ==
  LET cell == RawCell(r, 2)
  IN  IF ~cell.present \/ cell.v.t \in {"null", "undefined"} THEN <<>>
      ELSE StringOf(cell.v)

HasItemForRow(r) == \E i \in 1..Len(Items) : Items[i].row = r

\* C2: for every row r in [3, totalsRow) a LineItem with row = r is produced
\* iff the stringified column-2 cell of r is not the empty string, for every
\* cell value type, numeric and boolean cells included.
C2_RowInclusion ==
  pc = "returned" =>
    \A r \in 3..(totalsRow - 1) : HasItemForRow(r) <=> EventTypeText(r) # <<>>

\* the column-1 cell of row r reads "total" once trimmed and lowercased
IsTotalRow(r) ==
  LET cell == RawCell(r, 1)
  IN  /\ cell.present
      /\ cell.v.t = "string"
      /\ \E a \in 0..Len(cell.v.s) :
           /\ a + 5 <= Len(cell.v.s)
           /\ \A i \in 1..Len(cell.v.s) :
                (i <= a \/ i > a + 5) => cell.v.s[i] \in {" ", "\t", "\n"}
           /\ \A k \in 1..5 :
                cell.v.s[a + k] \in {<<"t", "o", "t", "a", "l">>[k],
                                     <<"T", "O", "T", "A", "L">>[k]}

RowsWithCells == {r \in DOMAIN TheSheet.cells : DOMAIN TheSheet.cells[r] # {}}
LastPopulatedRow == CHOOSE r \in RowsWithCells : \A q \in RowsWithCells : q <= r

\* C3: if some row N >= 3, up to the last populated row, has a column-1 cell
\* that reads "total" once trimmed and lowercased, the detected totals row is
\* the smallest such N; otherwise it is the worksheet's last populated row.
C3_TotalsRowDetection ==
  (pc = "returned" /\ RowsWithCells # {}) =>
    LET cands == {r \in 3..LastPopulatedRow : IsTotalRow(r)}
    IN  IF cands # {}
          THEN totalsRow \in cands /\ \A r \in cands : totalsRow <= r
          ELSE totalsRow = LastPopulatedRow

\* C3 witness: " Total " in rows 4 and 5 and a "TOTAL" caption in header
\* row 2; row 4 is detected
C3_Witness ==
  /\ pc = "returned"
  /\ IsTotalRow(2) /\ ~IsTotalRow(3) /\ IsTotalRow(4) /\ IsTotalRow(5)
  /\ totalsRow = 4

\* C4: without a sheet named "2026 Budget" extractBudget throws before any
\* cell is read; the message names the missing sheet and ends with the
\* available sheet names joined by ", "; no result is returned.
C4_MissingSheet ==
  (pc # "ready" /\ ~SheetPresent) =>
    LET names == workbook.SheetNames
        k == Len(names)
        width == IF k = 0 THEN 0 ELSE 2 * k - 1
        listed == SubSeq(error, Len(error) - width + 1, Len(error))
    IN  /\ pc = "thrown"
        /\ result = Undefined
        /\ nReads = 0
        /\ Len(error) >= width + 1
        /\ \E i \in 1..(Len(error) - width) : error[i] = "2026 Budget"
        /\ \A i \in 1..k : listed[2 * i - 1] = names[i]
        /\ \A i \in 1..(k - 1) : listed[2 * i] = ", "

\* C4 witness: sheets "Sheet1" and "2025 Budget" only; the error lists
\* "Sheet1, 2025 Budget"
C4_Witness ==
  /\ pc = "thrown"
  /\ workbook.SheetNames = <<"Sheet1", "2025 Budget">>
  /\ error = <<"Sheet \"", "2026 Budget", "\" not found. Available sheets: ",
               "Sheet1", ", ", "2025 Budget">>

ResultFields ==
  {"metadata", "months", "quarters", "line_items", "totals",
   "by_source_fund", "by_expense_type", "by_category", "actuals_detail",
   "audit_findings", "recommendations"}

\* C5: with the target sheet present extractBudget returns a full
\* ExtractionResult whatever cells are absent, blank or malformed (an empty
\* sheet included); it throws only for a missing sheet.
C5_OnlyMissingSheetFails ==
  /\ pc = "thrown" => ~SheetPresent /\ result = Undefined
  /\ (pc # "ready" /\ SheetPresent) =>
       /\ pc = "returned"
       /\ error = <<>>
       /\ DOMAIN result = ResultFields
       /\ result.metadata.total_line_items = Len(result.line_items)

\* C5 witness: an empty target sheet has been extracted, with no line items
C5_Witness ==
  /\ pc = "returned"
  /\ RowsWithCells = {}
  /\ ~TheSheet.ref.present
  /\ result.line_items = <<>>
  /\ result.totals.committed_fy26 = Num(0)

\* the numeric coercion of the raw cell at (r, c) of the target sheet
Coerced(r, c) ==
  LET cell == RawCell(r, c)
  IN  safeFloat(IF cell.present THEN cell.v ELSE Null)

\* C6: every monetary field of the LineItem of row r is the numeric coercion
\* of the cell at its fixed column: budget_fy26 11, committed_fy26 12,
\* budget_monthly[m] 13+m, budget_quarterly[q] 25+q, budget_fy 29,
\* forecast_monthly[m] 30+m, forecast_quarterly[q] 42+q, forecast_fy 46,
\* actual_monthly[m] 47+m, actual_quarterly[q] 59+q, actual_fy 63,
\* bvf_monthly[m] 64+m, bvf_fy 80, bva_monthly[m] 81+m, bva_fy 97; a blank
\* column 11 with column 12 = "125000" gives budget 0 and committed 125000.
C6_FieldMapping ==
  pc = "returned" =>
    \A i \in 1..Len(Items) :
      LET it == Items[i]
          r == it.row
      IN  /\ it.budget_fy26 = Coerced(r, 11)
          /\ it.committed_fy26 = Coerced(r, 12)
          /\ it.budget_fy = Coerced(r, 29)
          /\ it.forecast_fy = Coerced(r, 46)
          /\ it.actual_fy = Coerced(r, 63)
          /\ it.bvf_fy = Coerced(r, 80)
          /\ it.bva_fy = Coerced(r, 97)
          /\ \A m \in 0..11 :
               /\ it.budget_monthly[m + 1] = Coerced(r, 13 + m)
               /\ it.forecast_monthly[m + 1] = Coerced(r, 30 + m)
               /\ it.actual_monthly[m + 1] = Coerced(r, 47 + m)
               /\ it.bvf_monthly[m + 1] = Coerced(r, 64 + m)
               /\ it.bva_monthly[m + 1] = Coerced(r, 81 + m)
          /\ \A q \in 0..3 :
               /\ it.budget_quarterly[q + 1] = Coerced(r, 25 + q)
               /\ it.forecast_quarterly[q + 1] = Coerced(r, 42 + q)
               /\ it.actual_quarterly[q + 1] = Coerced(r, 59 + q)
          /\ (RawCell(r, 11) = ValueCell(Str(<<>>))
                /\ RawCell(r, 12) = ValueCell(Str(C_125000))) =>
               /\ it.budget_fy26 = Num(0)
               /\ it.committed_fy26 = Num(125000)

\* C6 witness: the "Labor"/"SOW" row with blank column 11 and "125000" in
\* column 12 became an item with budget 0 and committed 125000, and its
\* monthly series carry several distinct numbers
C6_Witness ==
  /\ pc = "returned"
  /\ \E i \in 1..Len(Items) :
       /\ Items[i].category = C_Labor
       /\ Items[i].event_type = C_SOW
       /\ RawCell(Items[i].row, 11) = ValueCell(Str(<<>>))
       /\ Items[i].budget_fy26 = Num(0)
       /\ Items[i].committed_fy26 = Num(125000)
       /\ Cardinality({Items[i].budget_monthly[m] : m \in 1..12}) >= 6
       /\ Cardinality({Items[i].bva_monthly[m] : m \in 1..12}) >= 6

RECURSIVE SumCommitted(_)
SumCommitted(items) ==
  IF items = <<>> THEN Num(0)
  ELSE NumAdd(SumCommitted(Tail(items)), Head(items).committed_fy26)

RECURSIVE SumValues(_)
SumValues(obj) ==
  IF obj = <<>> THEN Num(0)
  ELSE NumAdd(SumValues(Tail(obj)), Head(obj).v)

LabelOf(text, default) == IF text = <<>> THEN default ELSE text

SelectByLabel(items, field, default, label) ==
  SelectSeq(items, LAMBDA it : LabelOf(it[field], default) = label)

\* obj holds exactly the labels the items carry, each once, and each value
\* is the sum of committed_fy26 over the items carrying the label
IsPerLabelSum(obj, field, default) ==
  /\ \A i, j \in 1..Len(obj) : obj[i].k = obj[j].k => i = j
  /\ \A i \in 1..Len(obj) :
       /\ obj[i].k # <<>>
       /\ SelectByLabel(Items, field, default, obj[i].k) # <<>>
       /\ obj[i].v = SumCommitted(SelectByLabel(Items, field, default, obj[i].k))
  /\ \A n \in 1..Len(Items) :
       \E i \in 1..Len(obj) : obj[i].k = LabelOf(Items[n][field], default)

C9_TotalsReadFromRow ==
  pc = "returned" =>
    LET t == result.totals
        r == totalsRow
    IN  /\ t.budget_fy26 = Coerced(r, 11)
        /\ t.committed_fy26 = Coerced(r, 12)
        /\ t.budget_fy = Coerced(r, 29)
        /\ t.forecast_fy = Coerced(r, 46)
        /\ t.actual_fy = Coerced(r, 63)
        /\ t.bvf_fy = Coerced(r, 80)
        /\ t.bva_fy = Coerced(r, 97)
        /\ \A m \in 0..11 :
             /\ t.budget_monthly[m + 1] = Coerced(r, 13 + m)
             /\ t.forecast_monthly[m + 1] = Coerced(r, 30 + m)
             /\ t.actual_monthly[m + 1] = Coerced(r, 47 + m)
        /\ \A q \in 0..3 :
             /\ t.budget_quarterly[q + 1] = Coerced(r, 25 + q)
             /\ t.forecast_quarterly[q + 1] = Coerced(r, 42 + q)
             /\ t.actual_quarterly[q + 1] = Coerced(r, 59 + q)

\* C9 witness: the totals row says 9999 committed while the two line items
\* sum to 3000; the result keeps both figures
C9_Witness ==
  /\ pc = "returned"
  /\ IsTotalRow(totalsRow)
  /\ Len(Items) = 2
  /\ SumCommitted(Items) = Num(3000)
  /\ result.totals.committed_fy26 = Num(9999)

MonetaryFields ==
  {"budget_fy26", "committed_fy26",
   "budget_monthly", "budget_quarterly", "budget_fy",
   "forecast_monthly", "forecast_quarterly", "forecast_fy",
   "actual_monthly", "actual_quarterly", "actual_fy",
   "bvf_monthly", "bvf_fy", "bva_monthly", "bva_fy"}

MonthlyFields ==
  {"budget_monthly", "forecast_monthly", "actual_monthly",
   "bvf_monthly", "bva_monthly"}

QuarterlyFields == {"budget_quarterly", "forecast_quarterly", "actual_quarterly"}

\* C10 as stated: the totals record carries every monetary field a LineItem
\* carries, bvf_monthly[12] and bva_monthly[12] included.
C10_TotalsShape_AsStated ==
  pc = "returned" => MonetaryFields \subseteq DOMAIN result.totals

\* C10 amended: the totals record carries every monetary field a LineItem
\* carries except bvf_monthly and bva_monthly, and nothing else; its monthly
\* series have 12 and its quarterly series 4 elements.
C10_TotalsShape ==
  pc = "returned" =>
    /\ DOMAIN result.totals = MonetaryFields \ {"bvf_monthly", "bva_monthly"}
    /\ \A f \in MonthlyFields \cap DOMAIN result.totals :
         Len(result.totals[f]) = 12
    /\ \A f \in QuarterlyFields : Len(result.totals[f]) = 4
    /\ \A i \in 1..Len(Items) : MonetaryFields \subseteq DOMAIN Items[i]

\* C10 witness: a result whose line item has a bvf_monthly series of 12
\* while its totals record has none
C10_Witness ==
  /\ pc = "returned"
  /\ Len(Items) >= 1
  /\ Len(Items[1].bvf_monthly) = 12
  /\ "bvf_monthly" \notin DOMAIN result.totals
  /\ "bvf_fy" \in DOMAIN result.totals

\* what reading res.months and res.quarters gives: the current contents of
\* the arrays the fields refer to
MonthsOf(res) == moduleArrays[res.months.ref]
QuartersOf(res) == moduleArrays[res.quarters.ref]

\* C11: every LineItem's monthly series (budget, forecast, actual, bvf, bva)
\* has exactly 12 elements and every quarterly series (budget, forecast,
\* actual) exactly 4, however many cells of the row are absent; the result's
\* months list has 12 entries and its quarters list has 4.
C11_SchemaStability ==
  pc = "returned" =>
    /\ \A i \in 1..Len(Items) :
         /\ \A f \in MonthlyFields :
              DOMAIN Items[i][f] = 1..12 /\ Len(Items[i][f]) = 12
         /\ \A f \in QuarterlyFields :
              DOMAIN Items[i][f] = 1..4 /\ Len(Items[i][f]) = 4
    /\ Len(MonthsOf(result)) = 12
    /\ Len(QuartersOf(result)) = 4

\* C11 witness: an item of a row with no monthly or quarterly cell at all and
\* an item of a row with some monthly cells present and some absent, both
\* with full series
C11_Witness ==
  /\ pc = "returned"
  /\ \E i \in 1..Len(Items) :
       /\ \A c \in 13..62 : ~RawCell(Items[i].row, c).present
       /\ Len(Items[i].budget_monthly) = 12
       /\ Len(Items[i].actual_quarterly) = 4
  /\ \E i \in 1..Len(Items) :
       /\ \E c \in 13..24 : ~RawCell(Items[i].row, c).present
       /\ \E c \in 13..24 : RawCell(Items[i].row, c).present
       /\ Len(Items[i].budget_monthly) = 12

StringFields ==
  <<"category", "event_type", "source_fund", "expense_type", "vendor",
    "description", "itbo_line", "sow", "itbo", "po">>

\* the text the claim gives the identity cell at column c of row r: '' for an
\* absent (or valueless) cell, the string itself, or the stringified value
IdentityText(r, c) ==
  LET cell == RawCell(r, c)
  IN  IF ~cell.present \/ cell.v.t \in {"null", "undefined"} THEN <<>>
      ELSE IF cell.v.t = "string" THEN cell.v.s
      ELSE StringOf(cell.v)

\* C13: every string identity field (category, event_type, source_fund,
\* expense_type, vendor, description, itbo_line, sow, itbo, po: columns 1 to
\* 10) is '' when its cell is absent and the stringified cell value when the
\* cell holds a non-string value; a numeric cell, the number 0 included,
\* yields its decimal text.
C13_StringCoercion ==
  pc = "returned" =>
    \A i \in 1..Len(Items) :
      \A c \in 1..10 :
        Items[i][StringFields[c]] = IdentityText(Items[i].row, c)

\* the line items whose actual_fy is above zero, in order
PositiveActuals == SelectSeq(Items, LAMBDA it : it.actual_fy.m > 0)

\* C14: actuals_detail is exactly the subsequence of line_items with
\* actual_fy > 0, in row order, each projected to category, vendor,
\* description and actual_fy; items with actual_fy <= 0 never appear and
\* every entry corresponds to exactly one line item.
C14_ActualsDetail ==
  pc = "returned" =>
    /\ \A i \in 1..Len(Items) : Items[i].actual_fy.k = "fin"
    /\ Len(result.actuals_detail) = Len(PositiveActuals)
    /\ \A i \in 1..Len(PositiveActuals) :
         result.actuals_detail[i] =
           [category |-> PositiveActuals[i].category,
            vendor |-> PositiveActuals[i].vendor,
            description |-> PositiveActuals[i].description,
            actual_fy |-> PositiveActuals[i].actual_fy]

\* C14 witness: of two items, with actuals -0.5 and 250, only the second is
\* in actuals_detail
C14_Witness ==
  /\ pc = "returned"
  /\ Len(Items) = 2
  /\ Items[1].actual_fy = Dec(-5, 1)
  /\ Items[2].actual_fy = Num(250)
  /\ Len(result.actuals_detail) = 1
  /\ result.actuals_detail[1].actual_fy = Num(250)
  /\ result.actuals_detail[1].vendor = C_Acme

\* C15: every LineItem has a non-empty event_type; a row of the line-item
\* range whose event-type cell is absent or empty is dropped without an
\* error, and the rows around it still give their items, in row order, each
\* built from its own row.
C15_EventTypeRequired ==
  pc = "returned" =>
    /\ error = <<>>
    /\ \A i \in 1..Len(Items) :
         /\ Items[i].event_type # <<>>
         /\ Items[i].row \in 3..(totalsRow - 1)
         /\ Items[i].event_type = EventTypeText(Items[i].row)
         /\ Items[i].category = IdentityText(Items[i].row, 1)
         /\ \A j \in 1..Len(Items) : i < j => Items[i].row < Items[j].row
    /\ \A r \in 3..(totalsRow - 1) :
         /\ EventTypeText(r) = <<>> => ~HasItemForRow(r)
         /\ (RawCell(r, 2).present /\ RawCell(r, 2).v.t = "string"
               /\ RawCell(r, 2).v.s # <<>>) => HasItemForRow(r)

\* C15 witness: row 3 has no event-type cell and row 4 has the event type
\* "SOW"; the only item is the one of row 4
C15_Witness ==
  /\ pc = "returned"
  /\ totalsRow = 5
  /\ ~RawCell(3, 2).present
  /\ RawCell(4, 2) = ValueCell(Str(C_SOW))
  /\ Len(Items) = 1
  /\ Items[1].row = 4
  /\ Items[1].event_type = C_SOW

\* C18: committed_formula is the formula string of the row's column-12 cell,
\* or '' when the cell is absent or has no formula; the formula is not
\* evaluated: committed_fy26 is the coercion of the cell's stored value.
C18_FormulaCapture ==
  pc = "returned" =>
    \A i \in 1..Len(Items) :
      LET cell == RawCell(Items[i].row, 12)
      IN  /\ Items[i].committed_formula =
               (IF cell.present /\ cell.f.t = "string" THEN cell.f.s ELSE <<>>)
          /\ Items[i].committed_fy26 =
               safeFloat(IF cell.present THEN cell.v ELSE Null)

\* C18 witness: one item carries the formula "=K3-500" with the stored
\* value 1000, the other has the committed value 2000, no formula, and ''
C18_Witness ==
  /\ pc = "returned"
  /\ \E i \in 1..Len(Items) :
       /\ Items[i].committed_formula = C_Formula
       /\ Items[i].committed_fy26 = Num(1000)
  /\ \E i \in 1..Len(Items) :
       /\ RawCell(Items[i].row, 12) = ValueCell(Num(2000))
       /\ Items[i].committed_formula = <<>>
       /\ Items[i].committed_fy26 = Num(2000)

\* the fields two results of one workbook must agree on
ComparedFields ==
  {"line_items", "totals", "by_source_fund", "by_expense_type",
   "by_category", "actuals_detail"}

AsExtracted(res) ==
  /\ MonthsOf(res) = <<"Jan", "Feb", "Mar", "Apr", "May", "Jun",
                       "Jul", "Aug", "Sep", "Oct", "Nov", "Dec">>
  /\ QuartersOf(res) = <<"Q1", "Q2", "Q3", "Q4">>
  /\ Len(res.audit_findings) = 7
  /\ Len(res.recommendations) = 7
  /\ Len(res.line_items) = res.metadata.total_line_items

\* C16: the results of two extractBudget calls share no mutable object:
\* after the caller mutates any array of one result (months, quarters,
\* line_items, audit_findings or recommendations), the other result, and the
\* result of a later extraction, is still as extractBudget builds it.
C16_NoSharedMutableState ==
  /\ (pc = "returned" /\ touched # "result") => AsExtracted(result)
  /\ (again # Undefined /\ touched # "again") => AsExtracted(again.result)

CalledInsert(h) == handlers[h].pc = "inserting" \/ handlers[h].db # "none"

\* auth is "Bearer" (in any letter case), white space, and then secret
IsBearerOf(auth, secret) ==
  /\ auth.t = "string"
  /\ \E k \in 7..Len(auth.s) :
       /\ \A i \in 1..6 :
            auth.s[i] \in {<<"b", "e", "a", "r", "e", "r">>[i],
                           <<"B", "E", "A", "R", "E", "R">>[i]}
       /\ \A i \in 7..k : auth.s[i] \in {" ", "\t", "\n"}
       /\ SubSeq(auth.s, k + 1, Len(auth.s)) = secret

\* C19: the upload handler calls insert only for a request whose
\* Authorization header carries a Bearer token equal to UPLOAD_SECRET; a
\* missing header, a different token, or any token while UPLOAD_SECRET is
\* unset or empty never causes an insert.
C19_UploadAuthentication ==
  \A h \in Handlers :
    CalledInsert(h) =>
      /\ env.UPLOAD_SECRET.t = "string"
      /\ env.UPLOAD_SECRET.s # <<>>
      /\ IsBearerOf(handlers[h].req.authorization, env.UPLOAD_SECRET.s)

\* the row with the highest id
HighestId(rows) == CHOOSE i \in 1..Len(rows) : \A j \in 1..Len(rows) : rows[j].id <= rows[i].id

\* C20: each successful upload adds one new snapshot row (the rows are as
\* many as the inserts that succeeded, with distinct ids growing in the order
\* of insertion, and every upload answered with 200 has its payload in a
\* row), and a fetchFromSupabase that returns data returns the data of the
\* row with the highest id, the one inserted last, never an older one.
C20_LatestSnapshot ==
  /\ [](/\ Len(snapshots) = Cardinality({h \in Handlers : handlers[h].db = "ok"})
        /\ \A i, j \in 1..Len(snapshots) :
             i < j => snapshots[i].id < snapshots[j].id
        /\ \A h \in Handlers :
             handlers[h].status = 200 =>
               \E i \in 1..Len(snapshots) :
                 snapshots[i].data = handlers[h].req.body)
  /\ [][(FetchFromSupabase /\ fetched' # Null) =>
          /\ snapshots # <<>>
          /\ HighestId(snapshots) = Len(snapshots)
          /\ fetched'.budgetData = snapshots[Len(snapshots)].data]_vars

\* C20 witness: payload "A" was uploaded, then payload "B"; both uploads
\* were answered with 200 and the dashboard holds "B"
C20_Witness ==
  /\ Len(snapshots) = 2
  /\ snapshots[1].data = Payload("A")
  /\ snapshots[2].data = Payload("B")
  /\ \A h \in Handlers : handlers[h].status = 200
  /\ fetched # Undefined /\ fetched # Null
  /\ fetched.budgetData = Payload("B")

\* C22: the row values of line_items are strictly increasing and all lie in
\* [3, totalsRow): the detected totals row is never itself a line item, also
\* when it is the last populated row and has a non-empty event type, and no
\* row after it becomes one.
C22_LineItemRange ==
  pc = "returned" =>
    /\ \A i \in 1..Len(Items) : Items[i].row >= 3 /\ Items[i].row < totalsRow
    /\ \A i, j \in 1..Len(Items) : i < j => Items[i].row < Items[j].row
    /\ ~HasItemForRow(totalsRow)
    /\ \A r \in RowsWithCells : r > totalsRow => ~HasItemForRow(r)

\* C22 witness: no row is labelled "total", so the last populated row 5 is
\* the totals row; it has the event type "SOW" and is not a line item, while
\* rows 3 and 4 are
C22_Witness ==
  /\ pc = "returned"
  /\ \A r \in RowsWithCells : ~IsTotalRow(r)
  /\ totalsRow = 5
  /\ RawCell(5, 2) = ValueCell(Str(C_SOW))
  /\ Len(Items) = 2
  /\ Items[1].row = 3 /\ Items[2].row = 4

\* C23: the detected totals row is at least 3, so the totals are never read
\* from the header rows 1 and 2, for every worksheet, an empty one and one
\* whose last populated row is 1 or 2 included.
C23_TotalsRowBelowHeaders == pc = "returned" => totalsRow >= 3

\* the keys of a map, as Object.keys lists them
KeysOf(obj) == [i \in 1..Len(obj) |-> obj[i].k]

\* the labels of the first n items in first-seen order, each once
RECURSIVE FirstSeen(_, _, _, _)
FirstSeen(items, n, field, default) ==
  IF n = 0 THEN <<>>
  ELSE LET seen == FirstSeen(items, n - 1, field, default)
           label == LabelOf(items[n][field], default)
       IN  IF \E i \in 1..Len(seen) : seen[i] = label
             THEN seen
             ELSE Append(seen, label)

\* C24: the key order of by_source_fund, by_expense_type and by_category is
\* the first-seen order of the labels of line_items in row order, for every
\* set of labels, digit-only ones such as "2026" included.
C24_FirstSeenKeyOrder ==
  pc = "returned" =>
    /\ KeysOf(result.by_source_fund)
         = FirstSeen(Items, Len(Items), "source_fund", Chars_Unspecified)
    /\ KeysOf(result.by_expense_type)
         = FirstSeen(Items, Len(Items), "expense_type", Chars_Unspecified)
    /\ KeysOf(result.by_category)
         = FirstSeen(Items, Len(Items), "category", <<"O", "t", "h", "e", "r">>)

\* C21: extract_budget.py and extractBudget of extract.js produce the same
\* output (the same fields, values and array lengths) for every workbook,
\* apart from the extraction date label.
C21_SameOutputAsAheadOfTime ==
  pc = "returned" =>
    \A today \in Dates :
      LET ahead == extract_budget(workbook, today)
      IN  /\ \A f \in DOMAIN result \ {"metadata"} : result[f] = ahead[f]
          /\ \A f \in DOMAIN result.metadata \ {"extracted_at"} :
               result.metadata[f] = ahead.metadata[f]

\* the checks of the upload handler in the order the claim gives them: the
\* first one a request fails, or "insert" when it passes all of them
FirstFailingCheck(h) ==
  LET req == handlers[h].req
      secretSet == env.UPLOAD_SECRET.t = "string" /\ env.UPLOAD_SECRET.s # <<>>
      set(v) == v.t = "string" /\ v.s # <<>>
      absent(v) == v.t \in {"null", "undefined"}
  IN  IF req.method # "POST" THEN "method"
      ELSE IF ~secretSet THEN "secret"
      ELSE IF ~(\/ req.authorization = env.UPLOAD_SECRET
                \/ IsBearerOf(req.authorization, env.UPLOAD_SECRET.s))
        THEN "token"
      ELSE IF ~(/\ req.body.t = "object"
                /\ absent(req.body.line_items) = FALSE
                /\ absent(req.body.totals) = FALSE)
        THEN "body"
      ELSE IF ~(set(env.VITE_SUPABASE_URL) /\ set(env.SUPABASE_SERVICE_ROLE_KEY))
        THEN "credentials"
      ELSE "insert"

StatusOfCheck ==
  [method |-> 405, secret |-> 500, token |-> 403, body |-> 400,
   credentials |-> 500]

\* C25: the handler evaluates its checks in the order method, UPLOAD_SECRET
\* configured, token, body, Supabase credentials, insert and answers with the
\* status of the first failing step (405, 500, 403, 400, 500, 500), or with
\* 200 only when every check passed and the insert reported no error; a
\* request rejected at a check performs no insert; a request is answered
\* once: a handler that has responded does nothing more, and a handler
\* waiting for its insert goes on to respond.
C25_HandlerOutcome ==
  /\ [](\A h \in Handlers :
          LET failing == FirstFailingCheck(h)
          IN  /\ handlers[h].pc = "responded" =>
                   IF failing # "insert"
                     THEN /\ handlers[h].status = StatusOfCheck[failing]
                          /\ handlers[h].db = "none"
                     ELSE /\ handlers[h].db \in {"ok", "error"}
                          /\ handlers[h].status =
                               (IF handlers[h].db = "ok" THEN 200 ELSE 500)
              /\ handlers[h].pc \in {"inserting", "resuming"} =>
                   /\ failing = "insert"
                   /\ handlers[h].status = 0)
  /\ [][\A h \in Handlers :
          handlers[h].pc = "responded" => handlers'[h] = handlers[h]]_vars
  /\ \A h \in Handlers :
       (handlers[h].pc = "inserting") ~> (handlers[h].pc = "responded")

\* C25 witness: one request with a wrong token and a body without totals
\* was answered 403 (the token check comes first) without an insert, and one
\* request that passed every check was answered 200 after its insert
C25_Witness ==
  /\ handlers["h1"].pc = "responded"
  /\ handlers["h1"].status = 403
  /\ handlers["h1"].db = "none"
  /\ handlers["h1"].req.body.t = "object"
  /\ handlers["h1"].req.body.totals = Undefined
  /\ handlers["h2"].pc = "responded"
  /\ handlers["h2"].status = 200
  /\ handlers["h2"].db = "ok"

\* C26: loadBudgetData uses the Supabase snapshot whenever fetchFromSupabase
\* returns one, the bundled JSON only when fetchFromSupabase returned null
\* (no client, an error, no row), and reports the source 'none' only when
\* both fail; fetchFromSupabase always returns (null or a snapshot of the
\* table); the dashboard is rendered only once budgetData holds the non-null
\* data loaded, and otherwise the empty state is shown and budgetData stays
\* null.
C26_DataSource ==
  /\ boot.pc # "start" =>
       /\ fetched # Undefined
       /\ fetched # Null =>
            /\ client = "configured"
            /\ \E i \in 1..Len(snapshots) :
                 /\ fetched.budgetData = snapshots[i].data
                 /\ fetched.uploadedAt = snapshots[i].uploaded_at
       /\ client = "none" => fetched = Null
  /\ boot.pc \in {"loaded", "done"} =>
       /\ fetched # Null =>
            /\ boot.loaded.source = "supabase"
            /\ boot.loaded.data = fetched.budgetData
       /\ boot.loaded.source = "supabase" => fetched # Null
       /\ boot.loaded.source = "local" =>
            /\ fetched = Null
            /\ boot.bundle.ok
            /\ boot.loaded.data = boot.bundle.default
       /\ boot.loaded.source = "none" =>
            /\ fetched = Null
            /\ ~boot.bundle.ok
            /\ boot.loaded.data = Null
  /\ boot.view = "dashboard" =>
       /\ boot.pc = "done"
       /\ budgetData # Null
       /\ budgetData = boot.loaded.data
  /\ boot.pc = "done" /\ boot.loaded.data = Null =>
       /\ boot.view = "empty"
       /\ budgetData = Null
  /\ boot.pc # "done" => boot.view = "static" /\ budgetData = Null

\* C26 witness: the table has a snapshot and the bundled JSON could be
\* imported too; the dashboard shows the snapshot
C26_Witness ==
  /\ boot.pc = "done"
  /\ boot.bundle = [ok |-> TRUE, default |-> Payload("L")]
  /\ boot.loaded.source = "supabase"
  /\ boot.view = "dashboard"
  /\ budgetData = Payload("B")

\* C27: a POST to /api/upload is sent only by a Confirm click while
\* pendingData is non-null, and its body is the pendingData of that moment;
\* Cancel sets pendingData to null; while pendingData is null no step sends
\* a POST; pendingData becomes non-null only when a handleFile whose parse
\* succeeded finishes, with that file's data, so a file whose parse fails
\* never becomes the pending data.
C27_UploadGating ==
  /\ [][(panel'.request # panel.request /\ panel'.request # Null) =>
          /\ ClickConfirm
          /\ panel.pendingData # Null
          /\ panel'.request.url = "/api/upload"
          /\ panel'.request.method = "POST"
          /\ panel'.request.body = panel.pendingData]_vars
  /\ [][ClickCancel => panel'.pendingData = Null]_vars
  /\ [][panel.pendingData = Null =>
          (panel'.request = panel.request \/ panel'.request = Null)]_vars
  /\ [][(panel'.pendingData # panel.pendingData /\ panel'.pendingData # Null) =>
          \E i \in 1..Len(panel.parses) :
            /\ ~ParseFails(panel.parses[i])
            /\ panel'.pendingData = ParsedData(panel.parses[i])
            /\ panel'.parses = RemoveAt(panel.parses, i)]_vars
  /\ [](\A file \in PanelFiles :
          ParseFails(file) => panel.pendingData # Payload(file))

\* C27 witness: file "A" was parsed and confirmed, its POST is in flight
\* with "A" as the body, and a Cancel click has then cleared pendingData
C27_Witness ==
  /\ panel.request # Null
  /\ panel.request.body = Payload("A")
  /\ panel.lastAction = "cancel"
  /\ panel.pendingData = Null

\* C28: once every parse in progress has finished, the pending data and the
\* preview are those of the file selected last, or cleared if a Cancel click
\* came last, whatever the order in which the parses finished.
C28_LastSelectionWins ==
  panel.parses = <<>> =>
    /\ panel.lastAction = "cancel" =>
         /\ panel.pendingData = Null
         /\ panel.preview.hidden
    /\ (panel.lastAction \in PanelFiles /\ ~ParseFails(panel.lastAction)) =>
         /\ panel.pendingData = ParsedData(panel.lastAction)
         /\ panel.preview = [data |-> ParsedData(panel.lastAction),
                             hidden |-> FALSE]

\* C29: while the POST of a Confirm click is in flight the Confirm button is
\* disabled; when it settles, either the server answered ok, the success
\* message is shown and a reload is scheduled, or an error message is shown
\* and the button is enabled again, never both; the button is never disabled
\* without a request in flight or a reload scheduled; every request in
\* flight settles.
C29_ConfirmOutcome ==
  /\ [](panel.request # Null => panel.confirmDisabled)
  /\ [](panel.confirmDisabled =>
          panel.request # Null \/ panel.reloadScheduled)
  /\ [][(panel.request # Null /\ panel'.request = Null) =>
          \/ /\ panel'.reloadScheduled
             /\ panel'.confirmDisabled
             /\ panel'.status =
                  ShownStatus("Upload successful! Reloading...", FALSE)
          \/ /\ ~panel'.reloadScheduled
             /\ ~panel'.confirmDisabled
             /\ panel'.status.isError
             /\ ~panel'.status.hidden
             /\ panel'.status.text \in {"Upload failed", "Network error"}]_vars
  /\ (panel.request # Null) ~> (panel.request = Null)

\* C29 witness: the request of a Confirm click failed, the error is shown
\* and the button is enabled again with the data still pending
C29_Witness ==
  /\ panel.status = ShownStatus("Network error", TRUE)
  /\ ~panel.confirmDisabled
  /\ panel.request = Null
  /\ panel.pendingData = Payload("B")
  /\ ~panel.reloadScheduled

\* C30: at most one refresh is in flight (a click on the disabled button
\* changes nothing); a refresh in flight keeps the button disabled; when it
\* settles, either a reload is scheduled (in production after a fetch that
\* returned data, which budgetData then holds) or the button is enabled
\* again; the button is never disabled without a refresh in flight or a
\* reload scheduled; every refresh in flight settles.
C30_RefreshOutcome ==
  /\ [](refresh.inFlight <= 1)
  /\ [](refresh.inFlight > 0 => refresh.disabled)
  /\ [](refresh.disabled => refresh.inFlight > 0 \/ refresh.reloadScheduled)
  /\ [][(ClickRefresh /\ refresh.disabled) => refresh' = refresh]_vars
  /\ [][refresh'.inFlight < refresh.inFlight =>
          \/ /\ refresh'.reloadScheduled
             /\ refresh'.disabled
             /\ refresh.isProduction =>
                  fetched' # Null /\ budgetData' = fetched'.budgetData
          \/ /\ ~refresh'.reloadScheduled
             /\ ~refresh'.disabled
             /\ refresh.isProduction => fetched' = Null]_vars
  /\ (refresh.inFlight > 0) ~> (refresh.inFlight = 0)

\* C30 witness: a production refresh found no data; the button is enabled
\* again, and a second refresh has been started and is the only one in flight
C30_Witness ==
  /\ refresh.isProduction
  /\ refresh.hideTimers = 1
  /\ refresh.inFlight = 1
  /\ refresh.disabled
  /\ ~refresh.reloadScheduled

====
